---- MODULE Spec2Model ----
(***************************************************************************)
(* The in-memory paper trading engine of marketforge-pro                   *)
(* (backend/services/paper_trading_service.py) and the two request         *)
(* handlers of backend/api/paper_trading_endpoints.py that reach it with   *)
(* an await between reading the store and writing it.                      *)
(*                                                                         *)
(* Units.  Quantities are counted in units of 1e-4 (so the close-out       *)
(* threshold 0.0001 of _reduce_position is 1 unit), prices in whole price  *)
(* units, and money in thousandths of (price unit x quantity unit), so     *)
(* that the fee of 0.001 x notional is a whole number.  Arithmetic is      *)
(* exact: cash is an integer, a position's total_cost is a rational        *)
(* (n over d, in lowest terms).  The rounding of IEEE doubles is not       *)
(* modelled.                                                               *)
(*                                                                         *)
(* Identifiers.  uuid4 ids are modelled by one counter per kind; Python    *)
(* dicts iterate in insertion order, which is then the order of the ids.   *)
(*                                                                         *)
(* Time.  datetime.utcnow() reads the variable clock; the clock advances   *)
(* between service calls (Tick), not inside one.  No operation of the      *)
(* service branches on a timestamp, so Tick is left to the specification   *)
(* in which timestamps are compared (SpecTimed).                           *)
(*                                                                         *)
(* The backtesting engine (python/backtester.py) is a program of its own,  *)
(* run as a script: the variables backtester and run are None in the       *)
(* specifications of the service, and the service's store is empty in      *)
(* SpecBacktest.  Its amounts are exact rationals, n over d.               *)
(***************************************************************************)
EXTENDS Integers, Sequences, FiniteSets, TLC

VARIABLES
    portfolios,           \* self.portfolios: id -> PortfolioData
    orders,               \* self.orders: id -> OrderData
    positions,            \* self.positions: id -> PositionData
    trades,               \* self.trades: id -> TradeData
    portfolio_orders,     \* self.portfolio_orders: portfolio id -> list of order ids
    portfolio_positions,  \* self.portfolio_positions
    portfolio_trades,     \* self.portfolio_trades
    fee_rate,             \* self.fee_rate, in thousandths
    ids,                  \* the next fresh id of each kind (_generate_id)
    clock,                \* datetime.utcnow()
    mu,                   \* the POST /market-update handler: where it is suspended
    backtester,           \* the Backtester of python/backtester.py: its portfolio
    run                   \* run_backtest: the loop over the bars and its locals

vars == <<portfolios, orders, positions, trades, portfolio_orders,
          portfolio_positions, portfolio_trades, fee_rate, ids, clock, mu,
          backtester, run>>

(***************************************************************************)
(* Bounds of the model.                                                    *)
(***************************************************************************)
MaxOrders == 3          \* orders created in one run
MaxClock == 2           \* instants of the clock
MaxTriggerOrders == 2   \* orders created in one run of SpecTriggers
MaxRoundTripOrders == 4 \* orders created in one run of SpecNoFee
PortfolioIds == {1}     \* portfolios created in one run
Symbols == {"BTC/USD", "ETH/USD"}
Prices == {1, 2}
Quantities == {1, 3}
Balances == {6000}

(***************************************************************************)
(* Program constants.                                                      *)
(***************************************************************************)
MoneyScale == 1000      \* money units per (price unit x quantity unit)
FeeRate == 1            \* fee_rate = 0.001, in units of 1/MoneyScale
Epsilon == 1            \* 0.0001, in quantity units
None == 0               \* an Optional price, id or timestamp that is absent

BUY == "buy"
SELL == "sell"
MARKET == "market"
LIMIT == "limit"
STOP_LOSS == "stop_loss"
TAKE_PROFIT == "take_profit"
PENDING == "pending"
FILLED == "filled"
PARTIALLY_FILLED == "partially_filled"
CANCELLED == "cancelled"
REJECTED == "rejected"
LONG == "long"

OrderSide == {BUY, SELL}
OrderType == {MARKET, LIMIT, STOP_LOSS, TAKE_PROFIT}
OrderStatus == {PENDING, FILLED, PARTIALLY_FILLED, CANCELLED, REJECTED}

(***************************************************************************)
(* Dicts, lists and rationals.                                             *)
(***************************************************************************)
Put(f, k, v) == [x \in DOMAIN f \cup {k} |-> IF x = k THEN v ELSE f[x]]

Del(f, k) == [x \in DOMAIN f \ {k} |-> f[x]]

DelAll(f, ks) == [x \in DOMAIN f \ ks |-> f[x]]

Get(f, k, default) == IF k \in DOMAIN f THEN f[k] ELSE default

Range(s) == {s[i] : i \in 1..Len(s)}

EmptyMap == [x \in {} |-> None]

SetMin(S) == CHOOSE x \in S : \A y \in S : x <= y

\* list.remove(x): the first occurrence
Remove(s, x) ==
    LET hits == {i \in 1..Len(s) : s[i] = x}
    IN IF hits = {} THEN s
       ELSE LET i == SetMin(hits)
            IN SubSeq(s, 1, i - 1) \o SubSeq(s, i + 1, Len(s))

RECURSIVE GCD(_, _)
GCD(a, b) == IF b = 0 THEN a ELSE GCD(b, a % b)

\* the rational n/d (n >= 0, d > 0) in lowest terms
Rat(n, d) == LET g == GCD(n, d) IN [n |-> n \div g, d |-> d \div g]

RatAddInt(r, k) == Rat(r.n + k * r.d, r.d)

\* the cost basis is left as it was
RatLessShare_unreduced(r, q, k) == r

\* r - (r / q) * k
RatLessShare(r, q, k) == Rat(r.n * (q - k), r.d * q)

(***************************************************************************)
(* The store, passed through the methods as one record.  Its field log is  *)
(* not part of the program: it lists the _execute_order calls made since   *)
(* the record was taken from the variables, each with the ledger before    *)
(* and after it, for the properties below to read.                         *)
(***************************************************************************)
Store ==
    [portfolios |-> portfolios, orders |-> orders, positions |-> positions,
     trades |-> trades, portfolio_orders |-> portfolio_orders,
     portfolio_positions |-> portfolio_positions,
     portfolio_trades |-> portfolio_trades, ids |-> ids, log |-> <<>>]

\* the store of a new service, as a record
NewStore ==
    [portfolios |-> EmptyMap, orders |-> EmptyMap, positions |-> EmptyMap,
     trades |-> EmptyMap, portfolio_orders |-> EmptyMap,
     portfolio_positions |-> EmptyMap, portfolio_trades |-> EmptyMap,
     ids |-> [portfolio |-> 1, order |-> 1, position |-> 1, trade |-> 1],
     log |-> <<>>]

\* PositionData.average_entry_price, a rational in money per quantity unit
average_entry_price(position) ==
    IF position.quantity > 0
    THEN Rat(position.total_cost.n, position.total_cost.d * position.quantity)
    ELSE Rat(0, 1)

\* defaultdict(list): appending under a missing key creates the list
AppendTo(index, k, v) == Put(index, k, Append(Get(index, k, <<>>), v))

\* the symbols are compared with != instead of ==
_find_position_other_symbol(S, portfolio_id, symbol) ==
    LET position_ids == Get(S.portfolio_positions, portfolio_id, <<>>)
        hits == {i \in 1..Len(position_ids) :
                    /\ position_ids[i] \in DOMAIN S.positions
                    /\ S.positions[position_ids[i]].symbol # symbol}
    IN IF hits = {} THEN None ELSE position_ids[SetMin(hits)]

\* the id of the first position of the portfolio's list with that symbol,
\* or None
_find_position(S, portfolio_id, symbol) ==
    LET position_ids == Get(S.portfolio_positions, portfolio_id, <<>>)
        hits == {i \in 1..Len(position_ids) :
                    /\ position_ids[i] \in DOMAIN S.positions
                    /\ S.positions[position_ids[i]].symbol = symbol}
    IN IF hits = {} THEN None ELSE position_ids[SetMin(hits)]

_update_position(S, portfolio_id, symbol, side, quantity, cost, now) ==
    LET position == _find_position(S, portfolio_id, symbol)
    IN IF position # None
       THEN [S EXCEPT !.positions[position].quantity = @ + quantity,
                      !.positions[position].total_cost = RatAddInt(@, cost)]
       ELSE LET position_id == S.ids.position
            IN [S EXCEPT
                  !.ids.position = @ + 1,
                  !.positions = Put(@, position_id,
                      [id |-> position_id, portfolio_id |-> portfolio_id,
                       symbol |-> symbol, side |-> side, quantity |-> quantity,
                       total_cost |-> Rat(cost, 1), opened_at |-> now]),
                  !.portfolio_positions = AppendTo(@, portfolio_id, position_id)]

\* a position is never closed
position_closed_never(quantity) == FALSE

\* a position is closed only once its quantity is below zero
position_closed_below_zero(quantity) == quantity < 0

\* "if position.quantity <= 0.0001": the position is closed
position_closed(quantity) == quantity <= Epsilon

_reduce_position(S, portfolio_id, symbol, quantity) ==
    LET position == _find_position(S, portfolio_id, symbol)
    IN IF position = None THEN S
       ELSE LET old == S.positions[position]
                left == old.quantity - quantity
                T == [S EXCEPT
                        !.positions[position].quantity = left,
                        !.positions[position].total_cost =
                            RatLessShare(old.total_cost, old.quantity, quantity)]
            IN IF position_closed(left)
               THEN [T EXCEPT
                       !.portfolio_positions[portfolio_id] = Remove(@, position),
                       !.positions = Del(@, position)]
               ELSE T

\* the balance is only required to be positive
insufficient_funds_nonpositive(cash_balance, notional, fee) == cash_balance <= 0

\* the balance is compared with the notional, the fee forgotten
insufficient_funds_without_fee(cash_balance, notional, fee) ==
    cash_balance < notional

\* "if portfolio.cash_balance < total_cost"
insufficient_funds(cash_balance, notional, fee) == cash_balance < notional + fee

\* only a missing position rejects a sell
insufficient_position_none_only(S, position, quantity) == position = None

\* "if not position or position.quantity < order.quantity"
insufficient_position(S, position, quantity) ==
    position = None \/ S.positions[position].quantity < quantity

\* the trade is recorded and the order left as it was
record_fill_keeps_status(S, order_id, execution_price, fee, now) ==
    LET order == S.orders[order_id]
        trade_id == S.ids.trade
    IN [S EXCEPT
          !.ids.trade = @ + 1,
          !.trades = Put(@, trade_id,
              [id |-> trade_id, portfolio_id |-> order.portfolio_id,
               order_id |-> order_id, symbol |-> order.symbol,
               side |-> order.side, quantity |-> order.quantity,
               price |-> execution_price, fee |-> fee, executed_at |-> now]),
          !.portfolio_trades = AppendTo(@, order.portfolio_id, trade_id),
          !.portfolios[order.portfolio_id].updated_at = now]

\* "Mark order as filled", "Record trade", "Update portfolio timestamp"
record_fill(S, order_id, execution_price, fee, now) ==
    LET order == S.orders[order_id]
        trade_id == S.ids.trade
    IN [S EXCEPT
          !.orders[order_id].status = FILLED,
          !.orders[order_id].filled_quantity = order.quantity,
          !.orders[order_id].average_fill_price = execution_price,
          !.orders[order_id].filled_at = now,
          !.ids.trade = @ + 1,
          !.trades = Put(@, trade_id,
              [id |-> trade_id, portfolio_id |-> order.portfolio_id,
               order_id |-> order_id, symbol |-> order.symbol,
               side |-> order.side, quantity |-> order.quantity,
               price |-> execution_price, fee |-> fee, executed_at |-> now]),
          !.portfolio_trades = AppendTo(@, order.portfolio_id, trade_id),
          !.portfolios[order.portfolio_id].updated_at = now]

\* a buy adds what was paid, fee included, to the cost basis
_execute_order_fee_in_cost_basis(S, order_id, execution_price, now) ==
    LET order == S.orders[order_id]
        portfolio == S.portfolios[order.portfolio_id]
        notional == execution_price * order.quantity * MoneyScale
        fee == execution_price * order.quantity * fee_rate
        total_cost == notional + fee
        rejected == [S EXCEPT !.orders[order_id].status = REJECTED]
        Filled(T) == record_fill(T, order_id, execution_price, fee, now)
    IN IF order.side = BUY
       THEN IF insufficient_funds(portfolio.cash_balance, notional, fee)
            THEN rejected
            ELSE Filled(_update_position(
                     [S EXCEPT !.portfolios[order.portfolio_id].cash_balance =
                                   @ - total_cost],
                     order.portfolio_id, order.symbol, LONG, order.quantity,
                     total_cost, now))
       ELSE LET position == _find_position(S, order.portfolio_id, order.symbol)
            IN IF insufficient_position(S, position, order.quantity)
               THEN rejected
               ELSE LET revenue == notional - fee
                    IN Filled(_reduce_position(
                           [S EXCEPT
                              !.portfolios[order.portfolio_id].cash_balance =
                                  @ + revenue],
                           order.portfolio_id, order.symbol, order.quantity))

\* a sell credits the notional value, and the fee is not taken from it
_execute_order_sell_without_fee(S, order_id, execution_price, now) ==
    LET order == S.orders[order_id]
        portfolio == S.portfolios[order.portfolio_id]
        notional == execution_price * order.quantity * MoneyScale
        fee == execution_price * order.quantity * fee_rate
        total_cost == notional + fee
        rejected == [S EXCEPT !.orders[order_id].status = REJECTED]
        Filled(T) == record_fill(T, order_id, execution_price, fee, now)
    IN IF order.side = BUY
       THEN IF insufficient_funds(portfolio.cash_balance, notional, fee)
            THEN rejected
            ELSE Filled(_update_position(
                     [S EXCEPT !.portfolios[order.portfolio_id].cash_balance =
                                   @ - total_cost],
                     order.portfolio_id, order.symbol, LONG, order.quantity,
                     notional, now))
       ELSE LET position == _find_position(S, order.portfolio_id, order.symbol)
            IN IF insufficient_position(S, position, order.quantity)
               THEN rejected
               ELSE LET revenue == notional
                    IN Filled(_reduce_position(
                           [S EXCEPT
                              !.portfolios[order.portfolio_id].cash_balance =
                                  @ + revenue],
                           order.portfolio_id, order.symbol, order.quantity))

_execute_order(S, order_id, execution_price, now) ==
    LET order == S.orders[order_id]
        portfolio == S.portfolios[order.portfolio_id]
        notional == execution_price * order.quantity * MoneyScale
        fee == execution_price * order.quantity * fee_rate
        total_cost == notional + fee
        rejected == [S EXCEPT !.orders[order_id].status = REJECTED]
        Filled(T) == record_fill(T, order_id, execution_price, fee, now)
    IN IF order.side = BUY
       THEN IF insufficient_funds(portfolio.cash_balance, notional, fee)
            THEN rejected
            ELSE Filled(_update_position(
                     [S EXCEPT !.portfolios[order.portfolio_id].cash_balance =
                                   @ - total_cost],
                     order.portfolio_id, order.symbol, LONG, order.quantity,
                     notional, now))
       ELSE LET position == _find_position(S, order.portfolio_id, order.symbol)
            IN IF insufficient_position(S, position, order.quantity)
               THEN rejected
               ELSE LET revenue == notional - fee
                    IN Filled(_reduce_position(
                           [S EXCEPT
                              !.portfolios[order.portfolio_id].cash_balance =
                                  @ + revenue],
                           order.portfolio_id, order.symbol, order.quantity))

\* what the properties read of a store
Ledger(S) ==
    [portfolios |-> S.portfolios, positions |-> S.positions,
     portfolio_positions |-> S.portfolio_positions, trades |-> S.trades,
     portfolio_trades |-> S.portfolio_trades]

\* self._execute_order(order_id, price) at its call sites, with the call
\* added to the log
Executed(S, order_id, execution_price, now) ==
    LET T == _execute_order(S, order_id, execution_price, now)
    IN [T EXCEPT !.log = Append(S.log,
           [order |-> S.orders[order_id], price |-> execution_price,
            before |-> Ledger(S), after |-> Ledger(T),
            status |-> T.orders[order_id].status])]

(***************************************************************************)
(* The service's public operations: each gives the store after the call    *)
(* and what the call returns or raises.                                    *)
(***************************************************************************)
create_portfolio(S, initial_balance, now) ==
    LET portfolio_id == S.ids.portfolio
    IN [store |-> [S EXCEPT
                     !.ids.portfolio = @ + 1,
                     !.portfolios = Put(@, portfolio_id,
                         [id |-> portfolio_id,
                          initial_balance |-> initial_balance,
                          cash_balance |-> initial_balance,
                          created_at |-> now, updated_at |-> now])],
        result |-> "ok"]

\* the positions of the account are left in the store
delete_portfolio_keeps_positions(S, portfolio_id) ==
    IF portfolio_id \notin DOMAIN S.portfolios
    THEN [store |-> S, result |-> "False"]
    ELSE [store |-> [S EXCEPT
             !.orders =
                 DelAll(@, Range(Get(S.portfolio_orders, portfolio_id, <<>>))),
             !.trades =
                 DelAll(@, Range(Get(S.portfolio_trades, portfolio_id, <<>>))),
             !.portfolio_orders = Del(@, portfolio_id),
             !.portfolio_positions = Del(@, portfolio_id),
             !.portfolio_trades = Del(@, portfolio_id),
             !.portfolios = Del(@, portfolio_id)],
          result |-> "True"]

delete_portfolio(S, portfolio_id) ==
    IF portfolio_id \notin DOMAIN S.portfolios
    THEN [store |-> S, result |-> "False"]
    ELSE [store |-> [S EXCEPT
             !.orders =
                 DelAll(@, Range(Get(S.portfolio_orders, portfolio_id, <<>>))),
             !.positions =
                 DelAll(@, Range(Get(S.portfolio_positions, portfolio_id, <<>>))),
             !.trades =
                 DelAll(@, Range(Get(S.portfolio_trades, portfolio_id, <<>>))),
             !.portfolio_orders = Del(@, portfolio_id),
             !.portfolio_positions = Del(@, portfolio_id),
             !.portfolio_trades = Del(@, portfolio_id),
             !.portfolios = Del(@, portfolio_id)],
          result |-> "True"]

\* the OrderData that create_order stores, in the store
store_order(S, portfolio_id, request, now) ==
    LET order_id == S.ids.order
        order_data ==
            [id |-> order_id, portfolio_id |-> portfolio_id,
             symbol |-> request.symbol, side |-> request.side,
             order_type |-> request.order_type, quantity |-> request.quantity,
             filled_quantity |-> 0, price |-> request.price,
             stop_price |-> request.stop_price, average_fill_price |-> None,
             status |-> PENDING, created_at |-> now, filled_at |-> None,
             cancelled_at |-> None]
    IN [S EXCEPT
          !.ids.order = @ + 1,
          !.orders = Put(@, order_id, order_data),
          !.portfolio_orders = AppendTo(@, portfolio_id, order_id)]

\* a market order is stored and left for the sweep
create_order_market_waits(S, portfolio_id, request, current_price, now) ==
    IF portfolio_id \notin DOMAIN S.portfolios
    THEN [store |-> S, result |-> "ValueError", order |-> None]
    ELSE LET order_id == S.ids.order
             T == store_order(S, portfolio_id, request, now)
             U == IF request.order_type = LIMIT /\ request.price # None
                  THEN IF \/ /\ request.side = BUY
                             /\ current_price <= request.price
                          \/ /\ request.side = SELL
                             /\ current_price >= request.price
                       THEN Executed(T, order_id, request.price, now)
                       ELSE T
                  ELSE T
         IN [store |-> U, result |-> "ok", order |-> U.orders[order_id]]

\* a limit order that can execute executes at the current price
create_order_limit_at_market(S, portfolio_id, request, current_price, now) ==
    IF portfolio_id \notin DOMAIN S.portfolios
    THEN [store |-> S, result |-> "ValueError", order |-> None]
    ELSE LET order_id == S.ids.order
             T == store_order(S, portfolio_id, request, now)
             U == IF request.order_type = MARKET
                  THEN Executed(T, order_id, current_price, now)
                  ELSE IF request.order_type = LIMIT /\ request.price # None
                  THEN IF \/ /\ request.side = BUY
                             /\ current_price <= request.price
                          \/ /\ request.side = SELL
                             /\ current_price >= request.price
                       THEN Executed(T, order_id, current_price, now)
                       ELSE T
                  ELSE T
         IN [store |-> U, result |-> "ok", order |-> U.orders[order_id]]

create_order(S, portfolio_id, request, current_price, now) ==
    IF portfolio_id \notin DOMAIN S.portfolios
    THEN [store |-> S, result |-> "ValueError", order |-> None]
    ELSE LET order_id == S.ids.order
             T == store_order(S, portfolio_id, request, now)
             U == IF request.order_type = MARKET
                  THEN Executed(T, order_id, current_price, now)
                  ELSE IF request.order_type = LIMIT /\ request.price # None
                  THEN IF \/ /\ request.side = BUY
                             /\ current_price <= request.price
                          \/ /\ request.side = SELL
                             /\ current_price >= request.price
                       THEN Executed(T, order_id, request.price, now)
                       ELSE T
                  ELSE T
         IN [store |-> U, result |-> "ok", order |-> U.orders[order_id]]

\* the status is not looked at
cancel_order_any_status(S, order_id, now) ==
    IF order_id \notin DOMAIN S.orders
    THEN [store |-> S, result |-> "None"]
    ELSE [store |-> [S EXCEPT !.orders[order_id].status = CANCELLED,
                              !.orders[order_id].cancelled_at = now],
          result |-> "ok"]

cancel_order(S, order_id, now) ==
    IF order_id \notin DOMAIN S.orders
    THEN [store |-> S, result |-> "None"]
    ELSE IF S.orders[order_id].status # PENDING
    THEN [store |-> S, result |-> "ValueError"]
    ELSE [store |-> [S EXCEPT !.orders[order_id].status = CANCELLED,
                              !.orders[order_id].cancelled_at = now],
          result |-> "ok"]

\* a triggered limit order executes at the snapshot price
TriggerPrice_limit_at_market(order, current_price) ==
    IF order.order_type = LIMIT /\ order.price # None
    THEN IF \/ order.side = BUY /\ current_price <= order.price
            \/ order.side = SELL /\ current_price >= order.price
         THEN current_price
         ELSE None
    ELSE IF order.order_type = STOP_LOSS /\ order.stop_price # None
    THEN IF current_price <= order.stop_price THEN current_price ELSE None
    ELSE IF order.order_type = TAKE_PROFIT /\ order.stop_price # None
    THEN IF current_price >= order.stop_price THEN current_price ELSE None
    ELSE None

\* a triggered stop-loss or take-profit order executes at its stop price
TriggerPrice_stop_at_stop(order, current_price) ==
    IF order.order_type = LIMIT /\ order.price # None
    THEN IF \/ order.side = BUY /\ current_price <= order.price
            \/ order.side = SELL /\ current_price >= order.price
         THEN order.price
         ELSE None
    ELSE IF order.order_type = STOP_LOSS /\ order.stop_price # None
    THEN IF current_price <= order.stop_price THEN order.stop_price ELSE None
    ELSE IF order.order_type = TAKE_PROFIT /\ order.stop_price # None
    THEN IF current_price >= order.stop_price THEN order.stop_price ELSE None
    ELSE None

\* the trigger condition of an order at a price: the price to execute it
\* at, or None
TriggerPrice(order, current_price) ==
    IF order.order_type = LIMIT /\ order.price # None
    THEN IF \/ order.side = BUY /\ current_price <= order.price
            \/ order.side = SELL /\ current_price >= order.price
         THEN order.price
         ELSE None
    ELSE IF order.order_type = STOP_LOSS /\ order.stop_price # None
    THEN IF current_price <= order.stop_price THEN current_price ELSE None
    ELSE IF order.order_type = TAKE_PROFIT /\ order.stop_price # None
    THEN IF current_price >= order.stop_price THEN current_price ELSE None
    ELSE None

\* the status of the order is not looked at
Trigger_ignores_status(order, prices) ==
    IF prices[order.symbol] = None THEN None
    ELSE TriggerPrice(order, prices[order.symbol])

\* only filled orders are skipped
Trigger_skips_filled_only(order, prices) ==
    IF order.status = FILLED THEN None
    ELSE IF prices[order.symbol] = None THEN None
    ELSE TriggerPrice(order, prices[order.symbol])

\* a symbol without a price is taken at price 0
Trigger_missing_price_as_zero(order, prices) ==
    IF order.status # PENDING THEN None
    ELSE IF prices[order.symbol] = None THEN TriggerPrice(order, 0)
    ELSE TriggerPrice(order, prices[order.symbol])

\* the loop body's decision for one order: the price to execute it at, or
\* None when the order is skipped (not pending, or no price for its symbol,
\* or not triggered)
Trigger(order, prices) ==
    IF order.status # PENDING THEN None
    ELSE IF prices[order.symbol] = None THEN None
    ELSE TriggerPrice(order, prices[order.symbol])

\* the loop of update_market_prices over self.orders.items(), from order id
\* `next` on (the dict's order is the order of creation); the result is
\* the store and the list returned
\* only the orders that were filled are listed
RECURSIVE Sweep_lists_fills_only(_, _, _, _, _)
Sweep_lists_fills_only(S, next, prices, now, executed_orders) ==
    IF next >= S.ids.order
    THEN [store |-> S, executed_orders |-> executed_orders]
    ELSE IF next \notin DOMAIN S.orders
    THEN Sweep_lists_fills_only(S, next + 1, prices, now, executed_orders)
    ELSE LET execution_price == Trigger(S.orders[next], prices)
         IN IF execution_price = None
            THEN Sweep_lists_fills_only(S, next + 1, prices, now,
                                        executed_orders)
            ELSE LET T == Executed(S, next, execution_price, now)
                 IN Sweep_lists_fills_only(T, next + 1, prices, now,
                        IF T.orders[next].status = FILLED
                        THEN Append(executed_orders, T.orders[next])
                        ELSE executed_orders)

\* the orders are visited from the one created last to the one created first
RECURSIVE Sweep_latest_first(_, _, _, _, _)
Sweep_latest_first(S, next, prices, now, executed_orders) ==
    IF next >= S.ids.order
    THEN [store |-> S, executed_orders |-> executed_orders]
    ELSE IF S.ids.order - next \notin DOMAIN S.orders
    THEN Sweep_latest_first(S, next + 1, prices, now, executed_orders)
    ELSE LET id == S.ids.order - next
             execution_price == Trigger(S.orders[id], prices)
         IN IF execution_price = None
            THEN Sweep_latest_first(S, next + 1, prices, now, executed_orders)
            ELSE LET T == Executed(S, id, execution_price, now)
                 IN Sweep_latest_first(T, next + 1, prices, now,
                        Append(executed_orders, T.orders[id]))

RECURSIVE Sweep(_, _, _, _, _)
Sweep(S, next, prices, now, executed_orders) ==
    IF next >= S.ids.order
    THEN [store |-> S, executed_orders |-> executed_orders]
    ELSE IF next \notin DOMAIN S.orders
    THEN Sweep(S, next + 1, prices, now, executed_orders)
    ELSE LET execution_price == Trigger(S.orders[next], prices)
         IN IF execution_price = None
            THEN Sweep(S, next + 1, prices, now, executed_orders)
            ELSE LET T == Executed(S, next, execution_price, now)
                 IN Sweep(T, next + 1, prices, now,
                          Append(executed_orders, T.orders[next]))

update_market_prices(S, prices, now) == Sweep(S, 1, prices, now, <<>>)

\* TradeData.total: "(self.quantity * self.price) + self.fee"
total(trade) == trade.quantity * trade.price * MoneyScale + trade.fee

\* the Trade returned for a stored trade
_build_trade_response(S, trade_id) ==
    LET trade == S.trades[trade_id]
    IN [id |-> trade.id, portfolio_id |-> trade.portfolio_id,
        order_id |-> trade.order_id, symbol |-> trade.symbol,
        side |-> trade.side, quantity |-> trade.quantity,
        price |-> trade.price, fee |-> trade.fee, total |-> total(trade),
        executed_at |-> trade.executed_at]

\* sorted(trades, key=executed_at, reverse=True): latest first, trades of
\* one instant in the order of the list (the sort is stable)
RECURSIVE SortedLatestFirst(_)
SortedLatestFirst(trades_) ==
    IF trades_ = <<>> THEN <<>>
    ELSE LET n == Len(trades_)
             front == SortedLatestFirst(SubSeq(trades_, 1, n - 1))
             x == trades_[n]
             k == Cardinality({i \in DOMAIN front :
                                  front[i].executed_at >= x.executed_at})
         IN SubSeq(front, 1, k) \o <<x>> \o SubSeq(front, k + 1, Len(front))

\* the first limit elements of a list: list[:limit]
FirstN(list, limit) ==
    SubSeq(list, 1, IF Len(list) < limit THEN Len(list) ELSE limit)

\* the default of list_trades' parameter limit
DefaultLimit == 100

list_trades(S, portfolio_id, limit) ==
    LET trade_ids == Get(S.portfolio_trades, portfolio_id, <<>>)
        kept == SelectSeq(trade_ids, LAMBDA t : t \in DOMAIN S.trades)
        trades_ == [i \in DOMAIN kept |-> _build_trade_response(S, kept[i])]
    IN FirstN(SortedLatestFirst(trades_), limit)

\* sum(...) over a list of numbers
RECURSIVE SeqSum(_)
SeqSum(list) ==
    IF list = <<>> THEN 0 ELSE list[1] + SeqSum(Tail(list))

\* list_positions: the positions of the portfolio with the price of each,
\* "current_prices.get(pos.symbol, 0)"
list_positions(S, portfolio_id, current_prices) ==
    LET position_ids == Get(S.portfolio_positions, portfolio_id, <<>>)
        kept == SelectSeq(position_ids, LAMBDA x : x \in DOMAIN S.positions)
    IN [i \in DOMAIN kept |->
           [id |-> kept[i], symbol |-> S.positions[kept[i]].symbol,
            quantity |-> S.positions[kept[i]].quantity,
            current_price |-> current_prices[S.positions[kept[i]].symbol]]]

\* the loop body of _calculate_portfolio_stats for one sell: "win", "loss"
\* or "none"; sell.price > sum(prices) / len is compared as
\* sell.price * len > sum(prices)
Classified(buys, sell) ==
    LET matching_buys ==
            SelectSeq(buys, LAMBDA b : b.symbol = sell.symbol
                                          /\ b.executed_at < sell.executed_at)
        avg_buy_price_sum ==
            SeqSum([i \in DOMAIN matching_buys |-> matching_buys[i].price])
    IN IF matching_buys = <<>> THEN "none"
       ELSE IF sell.price * Len(matching_buys) > avg_buy_price_sum
       THEN "win" ELSE "loss"

\* the PortfolioStats of a portfolio (sharpe_ratio and max_drawdown are
\* None in the program and left out); the two percentages are rationals
_calculate_portfolio_stats(S, portfolio_id, current_prices) ==
    LET portfolio == S.portfolios[portfolio_id]
        positions_ == list_positions(S, portfolio_id, current_prices)
        trades_ == list_trades(S, portfolio_id, DefaultLimit)
        positions_value ==
            SeqSum([i \in DOMAIN positions_ |->
                       positions_[i].quantity * positions_[i].current_price
                          * MoneyScale])
        total_value == portfolio.cash_balance + positions_value
        total_pnl == total_value - portfolio.initial_balance
        buys == SelectSeq(trades_, LAMBDA t : t.side = BUY)
        sells == SelectSeq(trades_, LAMBDA t : t.side = SELL)
        winning_trades ==
            Len(SelectSeq(sells, LAMBDA t : Classified(buys, t) = "win"))
        losing_trades ==
            Len(SelectSeq(sells, LAMBDA t : Classified(buys, t) = "loss"))
    IN [total_value |-> total_value,
        cash_balance |-> portfolio.cash_balance,
        positions_value |-> positions_value,
        total_pnl |-> total_pnl,
        total_pnl_percent |-> Rat(total_pnl * 100, portfolio.initial_balance),
        total_trades |-> Len(trades_),
        winning_trades |-> winning_trades,
        losing_trades |-> losing_trades,
        win_rate |-> IF winning_trades + losing_trades > 0
                     THEN Rat(winning_trades * 100,
                              winning_trades + losing_trades)
                     ELSE Rat(0, 1)]

(***************************************************************************)
(* The backtesting engine, python/backtester.py.  Its floats are modelled  *)
(* by exact rationals [n, d] with d > 0, in lowest terms.                  *)
(***************************************************************************)
Abs(k) == IF k < 0 THEN -k ELSE k

Lcm(a, b) == (a \div GCD(a, b)) * b

QInt(k) == [n |-> k, d |-> 1]

QAdd(a, b) ==
    LET d == Lcm(a.d, b.d)
    IN Rat(a.n * (d \div a.d) + b.n * (d \div b.d), d)

QSub(a, b) == QAdd(a, [n |-> -b.n, d |-> b.d])

QMul(a, b) ==
    LET g1 == GCD(Abs(a.n), b.d)
        g2 == GCD(Abs(b.n), a.d)
    IN Rat((a.n \div g1) * (b.n \div g2), (a.d \div g2) * (b.d \div g1))

\* a / b, for b > 0
QDiv(a, b) == QMul(a, [n |-> b.d, d |-> b.n])

QLess(a, b) ==
    LET d == Lcm(a.d, b.d)
    IN a.n * (d \div a.d) < b.n * (d \div b.d)

\* min(a, b)
QMin(a, b) == IF QLess(b, a) THEN b ELSE a

\* sum(...) over a list of rationals
RECURSIVE QSum(_)
QSum(list) ==
    IF list = <<>> THEN QInt(0) ELSE QAdd(list[1], QSum(Tail(list)))

\* max(...) over a list of rationals that is not empty
RECURSIVE QMax(_)
QMax(list) ==
    IF Len(list) = 1 THEN list[1]
    ELSE LET rest == QMax(Tail(list))
         IN IF QLess(list[1], rest) THEN rest ELSE list[1]

\* Trade.__init__
Trade(entry_time, entry_price, side, quantity) ==
    [entry_time |-> entry_time, entry_price |-> entry_price, side |-> side,
     quantity |-> quantity, exit_time |-> None, exit_price |-> None,
     pnl |-> None]

\* Trade.close_trade (return_pct is left out)
close_trade(trade, exit_time, exit_price) ==
    [trade EXCEPT
        !.exit_time = exit_time,
        !.exit_price = exit_price,
        !.pnl = IF trade.side = "buy"
                THEN QMul(QSub(exit_price, trade.entry_price), trade.quantity)
                ELSE QMul(QSub(trade.entry_price, exit_price), trade.quantity)]

\* Portfolio.__init__
NewPortfolio(initial_capital, commission) ==
    [initial_capital |-> initial_capital,
     current_capital |-> initial_capital,
     commission |-> commission,
     trades |-> <<>>,
     open_positions |-> <<>>,
     equity_curve |-> <<initial_capital>>,
     drawdown_curve |-> <<QInt(0)>>,
     peak_capital |-> initial_capital]

enter_position(P, timestamp, price, side, quantity) ==
    LET position_value == QMul(price, quantity)
        commission_cost == QMul(position_value, P.commission)
        total_cost == QAdd(position_value, commission_cost)
    IN IF QLess(P.current_capital, total_cost)
       THEN [portfolio |-> P, result |-> FALSE]
       ELSE [portfolio |-> [P EXCEPT
                 !.open_positions =
                     Append(@, Trade(timestamp, price, side, quantity)),
                 !.current_capital = QSub(@, total_cost)],
             result |-> TRUE]

\* exit_position with position_index = 0, the only index it is called with
exit_position(P, timestamp, price) ==
    IF P.open_positions = <<>>
    THEN [portfolio |-> P, result |-> FALSE]
    ELSE LET trade == close_trade(Head(P.open_positions), timestamp, price)
             position_value == QMul(price, trade.quantity)
             commission_cost == QMul(position_value, P.commission)
             net_proceeds == QSub(position_value, commission_cost)
         IN [portfolio |-> [P EXCEPT
                 !.open_positions = Tail(@),
                 !.current_capital = QAdd(@, net_proceeds),
                 !.trades = Append(@, trade)],
             result |-> TRUE]

\* the unrealized P&L of an open position at the price close
unrealized_pnl(position, close) ==
    IF position.side = "buy"
    THEN QMul(QSub(close, position.entry_price), position.quantity)
    ELSE QMul(QSub(position.entry_price, close), position.quantity)

\* update_equity({'close': close})
update_equity(P, close) ==
    LET total_equity ==
            QAdd(P.current_capital,
                 QSum([i \in DOMAIN P.open_positions |->
                          unrealized_pnl(P.open_positions[i], close)]))
    IN IF QLess(P.peak_capital, total_equity)
       THEN [P EXCEPT !.equity_curve = Append(@, total_equity),
                      !.peak_capital = total_equity,
                      !.drawdown_curve = Append(@, QInt(0))]
       ELSE [P EXCEPT !.equity_curve = Append(@, total_equity),
                      !.drawdown_curve =
                          Append(@, QMul(QDiv(QSub(P.peak_capital, total_equity),
                                              P.peak_capital),
                                         QInt(100)))]

\* get_statistics (sharpe_ratio, annualized_return and avg_trade_return are
\* left out); "t.pnl and t.pnl > 0" is false of a pnl of 0
get_statistics(P) ==
    IF P.trades = <<>>
    THEN [total_return |-> QInt(0), max_drawdown |-> QInt(0),
          win_rate |-> QInt(0), profit_factor |-> QInt(0),
          total_trades |-> 0]
    ELSE LET final_capital == P.equity_curve[Len(P.equity_curve)]
             winning_trades ==
                 SelectSeq(P.trades, LAMBDA t : QLess(QInt(0), t.pnl))
             losing_trades ==
                 SelectSeq(P.trades, LAMBDA t : QLess(t.pnl, QInt(0)))
             gross_profit ==
                 QSum([i \in DOMAIN winning_trades |-> winning_trades[i].pnl])
             loss == QSum([i \in DOMAIN losing_trades |-> losing_trades[i].pnl])
             gross_loss == [n |-> Abs(loss.n), d |-> loss.d]
         IN [total_return |->
                 QMul(QDiv(QSub(final_capital, P.initial_capital),
                           P.initial_capital), QInt(100)),
             max_drawdown |-> QMax(P.drawdown_curve),
             win_rate |-> QMul(QDiv(QInt(Len(winning_trades)),
                                    QInt(Len(P.trades))), QInt(100)),
             profit_factor |-> IF gross_loss.n > 0
                               THEN QDiv(gross_profit, gross_loss)
                               ELSE QInt(0),
             total_trades |-> Len(P.trades)]

\* "while self.portfolio.open_positions: exit_position(timestamp, price)"
RECURSIVE close_positions(_, _, _)
close_positions(P, timestamp, price) ==
    IF P.open_positions = <<>> THEN P
    ELSE close_positions(exit_position(P, timestamp, price).portfolio,
                         timestamp, price)

\* the body of "for signal in signals" for one signal of the bar
process_signal(P, signal, current_timestamp, current_price) ==
    IF signal.action = "buy"
    THEN LET quantity ==
                 QMin(signal.quantity,
                      QMul(QDiv(P.current_capital, current_price),
                           [n |-> 19, d |-> 20]))
         IN IF QLess(QInt(0), quantity)
            THEN enter_position(P, current_timestamp, current_price, "buy",
                                quantity).portfolio
            ELSE P
    ELSE IF signal.action = "sell"
    THEN IF P.open_positions # <<>>
         THEN exit_position(P, current_timestamp, current_price).portfolio
         ELSE P
    ELSE close_positions(P, current_timestamp, current_price)

\* "for signal in signals: if signal['timestamp'] == current_timestamp",
\* from the signal i on; applied (not in the program) lists the signals
\* the loop took up, each with the bar and the price it was applied at
RECURSIVE process_signals(_, _, _, _, _, _)
process_signals(P, signals, i, current_timestamp, current_price, applied) ==
    IF i > Len(signals) THEN [portfolio |-> P, applied |-> applied]
    ELSE IF signals[i].timestamp # current_timestamp
    THEN process_signals(P, signals, i + 1, current_timestamp, current_price,
                         applied)
    ELSE process_signals(
             process_signal(P, signals[i], current_timestamp, current_price),
             signals, i + 1, current_timestamp, current_price,
             Append(applied, [signal |-> i, timestamp |-> current_timestamp,
                              price |-> current_price]))

\* what exec(strategy_code) does on one bar: the strategy calls buy, sell
\* and close_all, which append the signals, and returns or raises
emit(signals, intents, current_timestamp, current_price) ==
    signals \o [i \in DOMAIN intents |->
                   [action |-> intents[i].action,
                    timestamp |-> current_timestamp,
                    price |-> current_price,
                    quantity |-> intents[i].quantity]]

\* the body of "for i, row in df.iterrows()" for the bar after R.index
\* bars, with the close of the bar and what the strategy does on it; the
\* timestamp of a bar is its place in the data (the bars are sorted and
\* their timestamps increase).  When the strategy raises, "continue"
\* leaves the bar
bar_step(P, R, close, outcome) ==
    LET current_timestamp == R.index + 1
        signals == emit(R.signals, outcome.intents, current_timestamp, close)
    IN IF outcome.raises
       THEN [portfolio |-> P, signals |-> signals, applied |-> <<>>]
       ELSE LET r == process_signals(P, signals, 1, current_timestamp, close,
                                     <<>>)
            IN [portfolio |-> update_equity(r.portfolio, close),
                signals |-> signals, applied |-> r.applied]

(***************************************************************************)
(* Inputs.  A request carries the price its type reads (price for LIMIT,   *)
(* stop_price for STOP_LOSS and TAKE_PROFIT); the field its type never     *)
(* reads is left out.  CreateOrderRequest admits only quantity > 0,        *)
(* price > 0 and stop_price > 0.                                           *)
(***************************************************************************)
Request(symbol, side, order_type, quantity, price, stop_price) ==
    [symbol |-> symbol, side |-> side, order_type |-> order_type,
     quantity |-> quantity, price |-> price, stop_price |-> stop_price]

\* the orders of Spec: market buys of both sizes and a market sell, and one
\* order of each other type, which waits for a sweep
Requests ==
    {Request("BTC/USD", BUY, MARKET, q, None, None) : q \in Quantities}
    \cup {Request("BTC/USD", SELL, MARKET, 3, None, None),
          Request("BTC/USD", SELL, LIMIT, 3, 2, None),
          Request("BTC/USD", SELL, STOP_LOSS, 1, None, 1),
          Request("ETH/USD", BUY, TAKE_PROFIT, 1, None, 2)}

\* the orders of SpecAsync
AsyncRequests ==
    {Request("BTC/USD", BUY, MARKET, 3, None, None),
     Request("BTC/USD", BUY, LIMIT, 3, 1, None),
     Request("BTC/USD", SELL, STOP_LOSS, 1, None, 1),
     Request("ETH/USD", BUY, TAKE_PROFIT, 1, None, 2)}

\* the orders of SpecTriggers: a market buy that opens a position, one order
\* of each waiting type with its limit or stop at 2, and two orders that
\* CreateOrderRequest admits without the price their type reads
TriggerRequests ==
    {Request("BTC/USD", BUY, MARKET, 3, None, None),
     Request("BTC/USD", BUY, LIMIT, 1, 2, None),
     Request("BTC/USD", SELL, LIMIT, 1, 2, None),
     Request("BTC/USD", BUY, STOP_LOSS, 1, None, 2),
     Request("BTC/USD", SELL, TAKE_PROFIT, 1, None, 2),
     Request("BTC/USD", BUY, LIMIT, 1, None, None),
     Request("ETH/USD", SELL, STOP_LOSS, 1, None, None)}

\* the orders of SpecNoFee: market orders of both sides and sizes
RoundTripRequests ==
    {Request("BTC/USD", d, MARKET, q, None, None) :
        d \in OrderSide, q \in Quantities}

\* the prices of SpecTriggers: below, at and above the limit or stop
TriggerPrices == {1, 2, 3}

\* the snapshots of SpecTriggers
TriggerSnapshots ==
    {[s \in Symbols |-> IF s = "BTC/USD" THEN c ELSE d] :
        c \in TriggerPrices \cup {None}, d \in {None, 2}}

\* a price snapshot: a price for some of the symbols
Snapshots == [Symbols -> Prices \cup {None}]

NoPrices == [s \in Symbols |-> None]

OrderIds == 1..MaxOrders

SetStore(S) ==
    /\ portfolios' = S.portfolios
    /\ orders' = S.orders
    /\ positions' = S.positions
    /\ trades' = S.trades
    /\ portfolio_orders' = S.portfolio_orders
    /\ portfolio_positions' = S.portfolio_positions
    /\ portfolio_trades' = S.portfolio_trades
    /\ ids' = S.ids

Init ==
    /\ portfolios = EmptyMap
    /\ orders = EmptyMap
    /\ positions = EmptyMap
    /\ trades = EmptyMap
    /\ portfolio_orders = EmptyMap
    /\ portfolio_positions = EmptyMap
    /\ portfolio_trades = EmptyMap
    /\ fee_rate = FeeRate
    /\ ids = [portfolio |-> 1, order |-> 1, position |-> 1, trade |-> 1]
    /\ clock = 1
    /\ mu = [pc |-> "idle", symbols |-> {}, prices |-> NoPrices, pending |-> {}]
    /\ backtester = None
    /\ run = None

(***************************************************************************)
(* The calls.  A FastAPI handler runs on the event loop until it awaits,   *)
(* and the service's methods never await: each service call is one step.   *)
(***************************************************************************)
CreatePortfolio(initial_balance) ==
    /\ ids.portfolio \in PortfolioIds
    /\ SetStore(create_portfolio(Store, initial_balance, clock).store)
    /\ UNCHANGED <<fee_rate, clock, mu, backtester, run>>

DeletePortfolio(portfolio_id) ==
    /\ SetStore(delete_portfolio(Store, portfolio_id).store)
    /\ UNCHANGED <<fee_rate, clock, mu, backtester, run>>

\* POST /portfolios/{id}/orders: the price is fetched (awaited) before the
\* store is read, then create_order runs without awaiting
CreateOrder(portfolio_id, request, current_price) ==
    /\ ids.order <= MaxOrders
    /\ SetStore(create_order(Store, portfolio_id, request, current_price,
                             clock).store)
    /\ UNCHANGED <<fee_rate, clock, mu, backtester, run>>

\* DELETE /orders/{id}: no await
CancelOrder(order_id) ==
    /\ SetStore(cancel_order(Store, order_id, clock).store)
    /\ UNCHANGED <<fee_rate, clock, mu, backtester, run>>

\* service.update_market_prices(prices), called with a snapshot
UpdateMarketPrices(prices) ==
    /\ SetStore(update_market_prices(Store, prices, clock).store)
    /\ UNCHANGED <<fee_rate, clock, mu, backtester, run>>

\* the orders that are pending
PendingOrders == {o \in DOMAIN orders : orders[o].status = PENDING}

\* POST /market-update up to its first await: the symbols of the pending
\* orders are collected; with none to fetch the sweep follows at once.
\* mu.pending (not in the program) keeps which orders were pending then.
MarketUpdateStart ==
    /\ mu.pc = "idle"
    /\ LET symbols == {orders[o].symbol : o \in PendingOrders}
       IN IF symbols = {}
          THEN /\ SetStore(update_market_prices(Store, NoPrices, clock).store)
               /\ mu' = [pc |-> "idle", symbols |-> {}, prices |-> NoPrices,
                         pending |-> {}]
          ELSE /\ mu' = [pc |-> "fetching", symbols |-> symbols,
                         prices |-> NoPrices, pending |-> PendingOrders]
               /\ UNCHANGED <<portfolios, orders, positions, trades,
                              portfolio_orders, portfolio_positions,
                              portfolio_trades, ids>>
    /\ UNCHANGED <<fee_rate, clock, backtester, run>>

\* POST /market-update from the return of one awaited _fetch_current_price
\* (a price, or None when the fetch failed) to the next await, or to the
\* end of the handler: after the last fetch the sweep runs in the same
\* step.  mu.prices keeps the snapshot of the last sweep.
MarketUpdateResume(symbol, price) ==
    /\ mu.pc = "fetching"
    /\ symbol \in mu.symbols
    /\ LET prices == IF price # None
                     THEN [mu.prices EXCEPT ![symbol] = price]
                     ELSE mu.prices
           left == mu.symbols \ {symbol}
       IN IF left # {}
          THEN /\ mu' = [mu EXCEPT !.symbols = left, !.prices = prices]
               /\ UNCHANGED <<portfolios, orders, positions, trades,
                              portfolio_orders, portfolio_positions,
                              portfolio_trades, ids>>
          ELSE /\ SetStore(update_market_prices(Store, prices, clock).store)
               /\ mu' = [mu EXCEPT !.pc = "idle", !.symbols = {},
                                   !.prices = prices]
    /\ UNCHANGED <<fee_rate, clock, backtester, run>>

Tick ==
    /\ clock < MaxClock
    /\ clock' = clock + 1
    /\ UNCHANGED <<portfolios, orders, positions, trades, portfolio_orders,
                   portfolio_positions, portfolio_trades, fee_rate, ids, mu,
                   backtester, run>>

\* the service, called directly
Next ==
    \/ \E b \in Balances : CreatePortfolio(b)
    \/ \E p \in PortfolioIds : DeletePortfolio(p)
    \/ \E p \in PortfolioIds, r \in Requests, c \in Prices : CreateOrder(p, r, c)
    \/ \E o \in OrderIds : CancelOrder(o)
    \/ \E prices \in Snapshots : UpdateMarketPrices(prices)

Spec == Init /\ [][Next]_vars

\* the request handlers: orders are swept by POST /market-update only
NextAsync ==
    \/ \E b \in Balances : CreatePortfolio(b)
    \/ \E p \in PortfolioIds, r \in AsyncRequests, c \in Prices :
          CreateOrder(p, r, c)
    \/ \E o \in OrderIds : CancelOrder(o)
    \/ MarketUpdateStart
    \/ \E s \in Symbols, c \in Prices \cup {None} : MarketUpdateResume(s, c)

SpecAsync == Init /\ [][NextAsync]_vars

\* the service, with time passing between the calls
NextTimed == Next \/ Tick

SpecTimed == Init /\ [][NextTimed]_vars

\* the state after construction and "service.fee_rate = 0"
InitNoFee ==
    /\ portfolios = EmptyMap
    /\ orders = EmptyMap
    /\ positions = EmptyMap
    /\ trades = EmptyMap
    /\ portfolio_orders = EmptyMap
    /\ portfolio_positions = EmptyMap
    /\ portfolio_trades = EmptyMap
    /\ fee_rate = 0
    /\ ids = [portfolio |-> 1, order |-> 1, position |-> 1, trade |-> 1]
    /\ clock = 1
    /\ mu = [pc |-> "idle", symbols |-> {}, prices |-> NoPrices, pending |-> {}]
    /\ backtester = None
    /\ run = None

\* create_order with a market order, up to the orders of one run of SpecNoFee
CreateMarketOrder(portfolio_id, request, current_price) ==
    /\ ids.order <= MaxRoundTripOrders
    /\ request.order_type = MARKET
    /\ SetStore(create_order(Store, portfolio_id, request, current_price,
                             clock).store)
    /\ UNCHANGED <<fee_rate, clock, mu, backtester, run>>

\* the service without fees, called with market orders
NextNoFee ==
    \/ \E b \in Balances : CreatePortfolio(b)
    \/ \E p \in PortfolioIds, r \in RoundTripRequests, c \in Prices :
          CreateMarketOrder(p, r, c)

SpecNoFee == InitNoFee /\ [][NextNoFee]_vars

\* the service, called with orders of the waiting types and with snapshots
\* below, at and above their limits and stops
NextTriggers ==
    \/ \E b \in Balances : CreatePortfolio(b)
    \/ \E p \in PortfolioIds, r \in TriggerRequests, c \in TriggerPrices :
          ids.order <= MaxTriggerOrders /\ CreateOrder(p, r, c)
    \/ \E o \in OrderIds : CancelOrder(o)
    \/ \E prices \in TriggerSnapshots : UpdateMarketPrices(prices)

SpecTriggers == Init /\ [][NextTriggers]_vars

\* the accounts of SpecAccounts, the orders one run of it creates, and an id
\* that no portfolio has
AccountIds == {1, 2}

MaxAccountOrders == 2

UnknownId == 3

\* the orders of SpecAccounts: a market buy that leaves a trade and a
\* position, and limit orders that wait for a sweep
AccountRequests ==
    {Request("BTC/USD", BUY, MARKET, 3, None, None),
     Request("BTC/USD", BUY, LIMIT, 1, 1, None),
     Request("BTC/USD", SELL, LIMIT, 1, 2, None)}

\* the snapshots of SpecAccounts
AccountSnapshots ==
    {[s \in Symbols |-> IF s = "BTC/USD" THEN c ELSE None] : c \in Prices}

\* create_portfolio, up to the accounts of one run of SpecAccounts
CreateAccount(initial_balance) ==
    /\ ids.portfolio \in AccountIds
    /\ SetStore(create_portfolio(Store, initial_balance, clock).store)
    /\ UNCHANGED <<fee_rate, clock, mu, backtester, run>>

\* the service with two accounts, deleted with their ids and with an id
\* that no portfolio has
NextAccounts ==
    \/ \E b \in Balances : CreateAccount(b)
    \/ \E p \in AccountIds \cup {UnknownId} : DeletePortfolio(p)
    \/ \E p \in AccountIds, r \in AccountRequests, c \in Prices :
          ids.order <= MaxAccountOrders /\ CreateOrder(p, r, c)
    \/ \E prices \in AccountSnapshots : UpdateMarketPrices(prices)

SpecAccounts == Init /\ [][NextAccounts]_vars

\* the orders one run of SpecSweepOrder creates
MaxSweepOrders == 3

\* the orders of SpecSweepOrder: limit orders of both sides with the limit
\* 2, which a snapshot at 2 triggers together, the buy for two thirds of
\* the balance
SweepRequests ==
    {Request("BTC/USD", BUY, LIMIT, 2, 2, None),
     Request("BTC/USD", SELL, LIMIT, 1, 2, None)}

\* the snapshots of SpecSweepOrder
SweepSnapshots ==
    {[s \in Symbols |-> IF s = "BTC/USD" THEN c ELSE None] :
        c \in TriggerPrices}

\* the service, called with limit orders that one snapshot triggers together
NextSweepOrder ==
    \/ \E b \in Balances : CreatePortfolio(b)
    \/ \E p \in PortfolioIds, r \in SweepRequests, c \in TriggerPrices :
          ids.order <= MaxSweepOrders /\ CreateOrder(p, r, c)
    \/ \E o \in 1..MaxSweepOrders : CancelOrder(o)
    \/ \E prices \in SweepSnapshots : UpdateMarketPrices(prices)

SpecSweepOrder == Init /\ [][NextSweepOrder]_vars

\* the orders one run of SpecStats creates: more than list_trades lists
\* by default; and the orders during which the price moves
MaxStatsOrders == 103

MovingOrders == 3

\* the client of SpecStats trades round trips of 2 units: it buys when it
\* holds nothing and sells what it holds
round_trip_request(S, portfolio_id) ==
    IF _find_position(S, portfolio_id, "BTC/USD") = None
    THEN Request("BTC/USD", BUY, MARKET, 2, None, None)
    ELSE Request("BTC/USD", SELL, MARKET, 2, None, None)

\* the price the order with the id n is created at: one that moves, then 1
StatsPrices(n) == IF n <= MovingOrders THEN Prices ELSE {1}

\* create_order with the next order of the round trips, each call at a
\* later reading of datetime.utcnow() than the one before
CreateOrderLater(portfolio_id, current_price) ==
    /\ ids.order <= MaxStatsOrders
    /\ portfolio_id \in DOMAIN portfolios
    /\ current_price \in StatsPrices(ids.order)
    /\ SetStore(create_order(Store, portfolio_id,
                             round_trip_request(Store, portfolio_id),
                             current_price, clock).store)
    /\ clock' = clock + 1
    /\ UNCHANGED <<fee_rate, mu, backtester, run>>

\* the service, called with a long run of round trips
NextStats ==
    \/ \E b \in Balances : CreatePortfolio(b)
    \/ \E p \in PortfolioIds, c \in Prices : CreateOrderLater(p, c)

SpecStats == Init /\ [][NextStats]_vars

\* the bars of one run of SpecBacktest
MaxBars == 3

\* Backtester(initial_capital, commission): the capital, and the default
\* commission of 0.001 and no commission
InitialCapitals == {QInt(100)}

DefaultCommission == [n |-> 1, d |-> 1000]

Commissions == {DefaultCommission, QInt(0)}

\* the closing prices of the bars
Closes == {QInt(1), QInt(2)}

\* the quantities the strategy buys: a tenth of the capital at the price 1,
\* and without commission also more than the capital covers at the price 2
StrategyQuantities(commission) ==
    IF commission = QInt(0) THEN {QInt(10), QInt(60)} ELSE {QInt(10)}

Intent(action, quantity) == [action |-> action, quantity |-> quantity]

\* what the strategy does on one bar: nothing, a buy, a sell (of the
\* default quantity 1.0), a close_all (which has no quantity: 0 stands for
\* it), a buy and a sell; or it raises, at once or after a buy
Outcomes(commission) ==
    LET buys == {Intent("buy", q) : q \in StrategyQuantities(commission)}
        lists == {<<>>, <<Intent("sell", QInt(1))>>,
                  <<Intent("close_all", QInt(0))>>}
                 \cup {<<b>> : b \in buys}
                 \cup {<<b, Intent("sell", QInt(1))>> : b \in buys}
    IN {[intents |-> l, raises |-> FALSE] : l \in lists}
       \cup {[intents |-> l, raises |-> TRUE] :
                l \in {<<>>} \cup {<<b>> : b \in buys}}

\* the state when run_backtest enters its loop: a new Backtester with data
\* loaded, and no signals
InitBacktest ==
    /\ portfolios = EmptyMap
    /\ orders = EmptyMap
    /\ positions = EmptyMap
    /\ trades = EmptyMap
    /\ portfolio_orders = EmptyMap
    /\ portfolio_positions = EmptyMap
    /\ portfolio_trades = EmptyMap
    /\ fee_rate = FeeRate
    /\ ids = [portfolio |-> 1, order |-> 1, position |-> 1, trade |-> 1]
    /\ clock = 1
    /\ mu = [pc |-> "idle", symbols |-> {}, prices |-> NoPrices, pending |-> {}]
    /\ \E k \in InitialCapitals, c \in Commissions :
          backtester = [portfolio |-> NewPortfolio(k, c)]
    /\ run = [pc |-> "loop", index |-> 0, current_timestamp |-> None,
              current_price |-> None, signals |-> <<>>, statistics |-> None]

\* one pass of the loop of run_backtest over the bars
ProcessBar(close, outcome) ==
    /\ run.pc = "loop"
    /\ run.index < MaxBars
    /\ outcome \in Outcomes(backtester.portfolio.commission)
    /\ LET r == bar_step(backtester.portfolio, run, close, outcome)
       IN /\ backtester' = [backtester EXCEPT !.portfolio = r.portfolio]
          /\ run' = [run EXCEPT !.index = @ + 1,
                                !.current_timestamp = run.index + 1,
                                !.current_price = close,
                                !.signals = r.signals]
    /\ UNCHANGED <<portfolios, orders, positions, trades, portfolio_orders,
                   portfolio_positions, portfolio_trades, fee_rate, ids,
                   clock, mu>>

\* run_backtest after the last bar: "Close any remaining positions at the
\* end" at the close of the last bar, and "Calculate final statistics"
Finish ==
    /\ run.pc = "loop"
    /\ run.index >= 1
    /\ LET P == close_positions(backtester.portfolio, run.index,
                                run.current_price)
       IN /\ backtester' = [backtester EXCEPT !.portfolio = P]
          /\ run' = [run EXCEPT !.pc = "done",
                                !.statistics = get_statistics(P)]
    /\ UNCHANGED <<portfolios, orders, positions, trades, portfolio_orders,
                   portfolio_positions, portfolio_trades, fee_rate, ids,
                   clock, mu>>

\* run_backtest, over data of 1 to MaxBars bars
NextBacktest ==
    \/ \E close \in Closes,
          outcome \in UNION {Outcomes(c) : c \in Commissions} :
          ProcessBar(close, outcome)
    \/ Finish

SpecBacktest == InitBacktest /\ [][NextBacktest]_vars

(***************************************************************************)
(* Properties.  Those about what a call returns or does are stated of      *)
(* every call that can be made in a reachable state.                       *)
(***************************************************************************)
Terminal == {FILLED, CANCELLED, REJECTED}

TradesOf(order_id) == {t \in DOMAIN trades : trades[t].order_id = order_id}

\* P holds of the log of every create_order and update_market_prices call
\* that can be made now
EveryExecution(P(_)) ==
    /\ \A p \in DOMAIN portfolios, r \in Requests, c \in Prices :
          LET log == create_order(Store, p, r, c, clock).store.log
          IN \A i \in DOMAIN log : P(log[i])
    /\ \A prices \in Snapshots :
          LET log == update_market_prices(Store, prices, clock).store.log
          IN \A i \in DOMAIN log : P(log[i])

\* C1: the cash balance of every existing portfolio is never negative
C1_CashNeverNegative ==
    \A p \in DOMAIN portfolios : portfolios[p].cash_balance >= 0

\* a portfolio that has traded, and a buy order of it that was rejected and
\* that its cash still cannot pay at any price
C1_Witness ==
    \E p \in DOMAIN portfolios, o \in DOMAIN orders :
        /\ orders[o].portfolio_id = p
        /\ orders[o].side = BUY
        /\ orders[o].status = REJECTED
        /\ portfolios[p].cash_balance < portfolios[p].initial_balance
        /\ portfolios[p].cash_balance < orders[o].quantity * MoneyScale

\* C2: an order has exactly one trade when it is FILLED and none otherwise,
\* and every trade is the trade of an order, so that no order is executed
\* twice
C2_OneTradePerFilledOrder ==
    /\ \A o \in DOMAIN orders :
          Cardinality(TradesOf(o)) =
              IF orders[o].status = FILLED THEN 1 ELSE 0
    /\ \A t \in DOMAIN trades : trades[t].order_id \in DOMAIN orders

\* two filled orders, one of them filled by a sweep, next to an order that
\* has no trade
C2_Witness ==
    \E o1, o2, o3 \in DOMAIN orders :
        /\ orders[o1].status = FILLED /\ orders[o1].order_type = MARKET
        /\ orders[o2].status = FILLED /\ orders[o2].order_type = STOP_LOSS
        /\ orders[o3].status # FILLED
        /\ Cardinality(DOMAIN trades) = 2

\* C3: the status of an order only changes from PENDING to FILLED,
\* CANCELLED or REJECTED; an order in one of these three never changes
\* again; no order is ever PARTIALLY_FILLED
C3_OrderLifecycle ==
    /\ [](\A o \in DOMAIN orders : orders[o].status # PARTIALLY_FILLED)
    /\ [][\A o \in DOMAIN orders \cap DOMAIN orders' :
            /\ orders[o].status \in Terminal => orders'[o] = orders[o]
            /\ orders'[o].status # orders[o].status =>
                  /\ orders[o].status = PENDING
                  /\ orders'[o].status \in Terminal]_vars

\* a rejected limit sell that the position now held would cover, and which
\* a retry would therefore fill
C3_Witness ==
    \E o \in DOMAIN orders, p \in DOMAIN positions :
        /\ orders[o].status = REJECTED
        /\ orders[o].order_type = LIMIT
        /\ orders[o].side = SELL
        /\ positions[p].portfolio_id = orders[o].portfolio_id
        /\ positions[p].symbol = orders[o].symbol
        /\ positions[p].quantity >= orders[o].quantity

\* C4: whatever the interleaving of the cancel handler with the market
\* update handler, a cancelled order stays as it is, has no trade and no
\* fill, and no executed order is marked cancelled
C4_CancelledNeverExecuted ==
    /\ [](\A o \in DOMAIN orders :
            /\ orders[o].status = CANCELLED =>
                  /\ TradesOf(o) = {}
                  /\ orders[o].filled_at = None
                  /\ orders[o].filled_quantity = 0
            /\ orders[o].status \in {FILLED, REJECTED} =>
                  orders[o].cancelled_at = None)
    /\ [][\A o \in DOMAIN orders \cap DOMAIN orders' :
            orders[o].status = CANCELLED => orders'[o] = orders[o]]_vars

\* a market update has ended whose prices trigger an order that was pending
\* when the update collected its symbols and was cancelled while the update
\* awaited its prices
C4_Witness ==
    /\ mu.pc = "idle"
    /\ \E o \in mu.pending \cap DOMAIN orders :
          /\ orders[o].status = CANCELLED
          /\ Trigger([orders[o] EXCEPT !.status = PENDING], mu.prices) # None

\* the positions a ledger holds for a portfolio and a symbol
Held(ledger, portfolio_id, symbol) ==
    {p \in DOMAIN ledger.positions :
        /\ ledger.positions[p].portfolio_id = portfolio_id
        /\ ledger.positions[p].symbol = symbol}

\* an execution of a buy whose cost with the fee exceeds the cash
OverBalance(e) ==
    /\ e.order.side = BUY
    /\ e.order.quantity * e.price * MoneyScale
          + e.order.quantity * e.price * fee_rate
       > e.before.portfolios[e.order.portfolio_id].cash_balance

\* an execution of a sell without a position of that quantity
OverPosition(e) ==
    /\ e.order.side = SELL
    /\ \A p \in Held(e.before, e.order.portfolio_id, e.order.symbol) :
          e.before.positions[p].quantity < e.order.quantity

\* C5: executing a BUY order whose quantity x price plus fee exceeds the
\* cash balance rejects the order, records no trade and leaves the cash
\* balance and the positions as they were
C5_BuyOverBalanceRejected ==
    LET P(e) == OverBalance(e) => e.status = REJECTED /\ e.after = e.before
    IN EveryExecution(P)

\* a buy order rejected for the fee alone: nothing has been traded, and the
\* cash covers quantity x price at every price
C5_Witness ==
    \E o \in DOMAIN orders :
        LET portfolio == portfolios[orders[o].portfolio_id]
        IN /\ orders[o].side = BUY
           /\ orders[o].status = REJECTED
           /\ DOMAIN trades = {}
           /\ portfolio.cash_balance = portfolio.initial_balance
           /\ \A c \in Prices :
                 orders[o].quantity * c * MoneyScale <= portfolio.cash_balance

\* C6: executing a SELL order for a symbol with no position, or with a
\* position smaller than the order, rejects the order, records no trade
\* and leaves the cash balance and the positions as they were
C6_SellOverPositionRejected ==
    LET P(e) == OverPosition(e) => e.status = REJECTED /\ e.after = e.before
    IN EveryExecution(P)

\* a sell order rejected while a smaller position was held: an earlier
\* market buy opened the position, nothing has been sold, and the position
\* is still smaller than the order
C6_Witness ==
    \E o, b \in DOMAIN orders :
        /\ orders[o].side = SELL /\ orders[o].status = REJECTED
        /\ b < o
        /\ orders[b].side = BUY /\ orders[b].order_type = MARKET
        /\ orders[b].status = FILLED
        /\ orders[b].symbol = orders[o].symbol
        /\ \A t \in DOMAIN trades : trades[t].side = BUY
        /\ \E p \in Held(Store, orders[o].portfolio_id, orders[o].symbol) :
              positions[p].quantity < orders[o].quantity

\* C7: cancel_order succeeds exactly on a PENDING order, which it makes
\* CANCELLED with a cancellation time and nothing else changed; on a
\* FILLED, CANCELLED or REJECTED order it raises and changes nothing
C7_CancelOnlyPending ==
    \A o \in DOMAIN orders :
        LET R == cancel_order(Store, o, clock)
        IN IF orders[o].status = PENDING
           THEN /\ R.result = "ok"
                /\ R.store.orders[o].status = CANCELLED
                /\ R.store.orders[o].cancelled_at = clock
                /\ R.store.orders[o].cancelled_at # None
                /\ [R.store.orders[o] EXCEPT !.status = PENDING,
                                             !.cancelled_at = None]
                   = orders[o]
                /\ \A q \in DOMAIN orders \ {o} :
                      R.store.orders[q] = orders[q]
                /\ DOMAIN R.store.orders = DOMAIN orders
                /\ Ledger(R.store) = Ledger(Store)
           ELSE /\ orders[o].status \in Terminal
                /\ R.result = "ValueError"
                /\ R.store = Store

\* a cancelled order with its cancellation time, next to a filled and a
\* rejected one
C7_Witness ==
    \E o1, o2, o3 \in DOMAIN orders :
        /\ orders[o1].status = CANCELLED /\ orders[o1].cancelled_at # None
        /\ orders[o2].status = FILLED
        /\ orders[o3].status = REJECTED

\* C8 as stated: every position has a quantity of at least 0 and none has
\* a quantity of 0.0001 or less, after a sell and after a buy alike
C8_NoPositionAtOrBelowEpsilon ==
    \A p \in DOMAIN positions :
        /\ positions[p].quantity >= 0
        /\ ~(positions[p].quantity <= Epsilon)

\* C8: every position has a positive quantity, and the position that a
\* filled sell has reduced is gone or has a quantity above 0.0001; a buy of
\* 0.0001 or less can open a position of that quantity
C8_PositionsPositiveAndSoldAboveEpsilon ==
    LET P(e) == e.order.side = SELL /\ e.status = FILLED =>
                    \A p \in Held(e.after, e.order.portfolio_id,
                                  e.order.symbol) :
                        e.after.positions[p].quantity > Epsilon
    IN /\ \A p \in DOMAIN positions : positions[p].quantity > 0
       /\ EveryExecution(P)

\* a position was sold out and removed, and a buy of 0.0001 has opened the
\* next one, which is held with that quantity
C8_Witness ==
    \E p \in DOMAIN positions :
        /\ positions[p].quantity <= Epsilon
        /\ p > 1
        /\ \E t \in DOMAIN trades :
              trades[t].side = SELL /\ trades[t].symbol = positions[p].symbol

\* C9: a portfolio never holds two positions for one symbol, a symbol that
\* was closed and reopened included
C9_OnePositionPerSymbol ==
    \A p, q \in DOMAIN positions :
        (/\ positions[p].portfolio_id = positions[q].portfolio_id
         /\ positions[p].symbol = positions[q].symbol) => p = q

\* a symbol bought, sold out and bought again: its second
\* position is the only one
C9_Witness ==
    /\ 2 \in DOMAIN positions
    /\ 1 \notin DOMAIN positions
    /\ \E t1, t2, t3 \in DOMAIN trades :
          /\ t1 < t2 /\ t2 < t3
          /\ trades[t1].side = BUY /\ trades[t2].side = SELL
          /\ trades[t3].side = BUY
          /\ \A t \in {t1, t2, t3} : trades[t].symbol = positions[2].symbol

\* C10: create_order with a MARKET request never returns a PENDING order:
\* the order is FILLED with the current price as its average fill price,
\* or REJECTED
C10_MarketOrderNeverPending ==
    \A p \in DOMAIN portfolios, r \in Requests, c \in Prices :
        r.order_type = MARKET =>
            LET R == create_order(Store, p, r, c, clock)
            IN /\ R.result = "ok"
               /\ R.order.status # PENDING
               /\ \/ /\ R.order.status = FILLED
                     /\ R.order.average_fill_price = c
                     /\ R.order.filled_quantity = r.quantity
                  \/ R.order.status = REJECTED
               /\ R.store.orders[R.order.id] = R.order

\* market orders filled at each of two prices, and a rejected one
C10_Witness ==
    \E o1, o2, o3 \in DOMAIN orders :
        /\ \A o \in {o1, o2, o3} : orders[o].order_type = MARKET
        /\ orders[o1].status = FILLED /\ orders[o1].average_fill_price = 1
        /\ orders[o2].status = FILLED /\ orders[o2].average_fill_price = 2
        /\ orders[o3].status = REJECTED

\* the limit of a LIMIT order, or the stop of a STOP_LOSS or TAKE_PROFIT
\* order, is reached at price c
ConditionHolds(order, c) ==
    \/ /\ order.order_type = LIMIT /\ order.price # None
       /\ \/ order.side = BUY /\ c <= order.price
          \/ order.side = SELL /\ c >= order.price
    \/ /\ order.order_type = STOP_LOSS /\ order.stop_price # None
       /\ c <= order.stop_price
    \/ /\ order.order_type = TAKE_PROFIT /\ order.stop_price # None
       /\ c >= order.stop_price

\* C11: create_order executes an order that is not a MARKET order only if
\* it is a LIMIT order whose limit the current price has reached, and then
\* once, at the limit price; a LIMIT order whose limit is not reached and
\* every STOP_LOSS or TAKE_PROFIT order is returned PENDING, with cash,
\* positions and trades unchanged
C11_OnlySatisfiedLimitExecutesAtCreation ==
    \A p \in DOMAIN portfolios, r \in TriggerRequests, c \in TriggerPrices :
        r.order_type # MARKET =>
            LET R == create_order(Store, p, r, c, clock)
                log == R.store.log
            IN IF r.order_type = LIMIT /\ ConditionHolds(r, c)
               THEN /\ Len(log) = 1
                    /\ log[1].order.id = R.order.id
                    /\ log[1].price = r.price
                    /\ R.order.status \in {FILLED, REJECTED}
                    /\ R.order.status = FILLED =>
                          R.order.average_fill_price = r.price
               ELSE /\ log = <<>>
                    /\ R.order.status = PENDING
                    /\ Ledger(R.store) = Ledger(Store)

\* a limit buy filled and paid at its limit, its trade the only one, next
\* to a take-profit order that is still waiting
C11_Witness ==
    \E o, w \in DOMAIN orders :
        LET portfolio == portfolios[orders[o].portfolio_id]
        IN /\ orders[o].order_type = LIMIT /\ orders[o].side = BUY
           /\ orders[o].status = FILLED
           /\ orders[o].average_fill_price = orders[o].price
           /\ Cardinality(DOMAIN trades) = 1
           /\ portfolio.cash_balance =
                 portfolio.initial_balance
                 - orders[o].quantity * orders[o].price
                   * (MoneyScale + fee_rate)
           /\ orders[w].order_type = TAKE_PROFIT
           /\ orders[w].status = PENDING

\* the executions of order o in a log
ExecutionsOf(log, o) == {i \in DOMAIN log : log[i].order.id = o}

\* the trades of order o in a store
TradesIn(S, o) == {t \in DOMAIN S.trades : S.trades[t].order_id = o}

\* C12: a sweep executes a PENDING LIMIT order exactly when the snapshot
\* has a price for its symbol that is at or below the limit of a buy, at or
\* above the limit of a sell; the execution price, the average fill price
\* and the price of the trade are then the limit, not the snapshot price
C12_SweepLimitAtLimitPrice ==
    \A prices \in TriggerSnapshots :
        LET R == update_market_prices(Store, prices, clock)
            log == R.store.log
        IN \A o \in DOMAIN orders :
              (/\ orders[o].status = PENDING
               /\ orders[o].order_type = LIMIT
               /\ orders[o].price # None) =>
                  LET c == prices[orders[o].symbol]
                      after == R.store.orders[o]
                  IN /\ (ExecutionsOf(log, o) # {}) <=>
                            /\ c # None
                            /\ \/ orders[o].side = BUY /\ c <= orders[o].price
                               \/ orders[o].side = SELL /\ c >= orders[o].price
                     /\ \A i \in ExecutionsOf(log, o) :
                            log[i].price = orders[o].price
                     /\ (ExecutionsOf(log, o) = {}) <=> after.status = PENDING
                     /\ after.status = FILLED =>
                            /\ after.average_fill_price = orders[o].price
                            /\ \A t \in TradesIn(R.store, o) :
                                  R.store.trades[t].price = orders[o].price
                            /\ TradesIn(R.store, o) # {}

\* a limit buy is waiting that a sweep at a price below its limit fills
C12_Witness ==
    \E prices \in TriggerSnapshots :
        LET log == update_market_prices(Store, prices, clock).store.log
        IN \E i \in DOMAIN log :
              /\ log[i].order.order_type = LIMIT
              /\ log[i].order.side = BUY
              /\ log[i].status = FILLED
              /\ prices[log[i].order.symbol] < log[i].order.price

\* C13: a sweep executes a PENDING STOP_LOSS order of either side exactly
\* when the snapshot price of its symbol is at or below its stop price and
\* a PENDING TAKE_PROFIT order exactly when it is at or above; the
\* execution price is the snapshot price, not the stop price
C13_SweepStopAtSnapshotPrice ==
    \A prices \in TriggerSnapshots :
        LET R == update_market_prices(Store, prices, clock)
            log == R.store.log
        IN \A o \in DOMAIN orders :
              (/\ orders[o].status = PENDING
               /\ orders[o].order_type \in {STOP_LOSS, TAKE_PROFIT}
               /\ orders[o].stop_price # None) =>
                  LET c == prices[orders[o].symbol]
                      after == R.store.orders[o]
                  IN /\ (ExecutionsOf(log, o) # {}) <=>
                            /\ c # None
                            /\ \/ /\ orders[o].order_type = STOP_LOSS
                                  /\ c <= orders[o].stop_price
                               \/ /\ orders[o].order_type = TAKE_PROFIT
                                  /\ c >= orders[o].stop_price
                     /\ \A i \in ExecutionsOf(log, o) : log[i].price = c
                     /\ (ExecutionsOf(log, o) = {}) <=> after.status = PENDING
                     /\ after.status = FILLED =>
                            /\ after.average_fill_price = c
                            /\ \A t \in TradesIn(R.store, o) :
                                  R.store.trades[t].price = c
                            /\ TradesIn(R.store, o) # {}

\* a stop-loss buy and a take-profit sell are waiting; a sweep below the
\* stop fills the one at the snapshot price and a sweep above the stop
\* executes the other at the snapshot price
C13_Witness ==
    \E lo, hi \in TriggerSnapshots :
        LET below == update_market_prices(Store, lo, clock).store.log
            above == update_market_prices(Store, hi, clock).store.log
        IN /\ \E i \in DOMAIN below :
                 /\ below[i].order.order_type = STOP_LOSS
                 /\ below[i].status = FILLED
                 /\ below[i].price < below[i].order.stop_price
           /\ \E i \in DOMAIN above :
                 /\ above[i].order.order_type = TAKE_PROFIT
                 /\ above[i].price > above[i].order.stop_price

\* the pending orders that a snapshot has a price for and whose limit or
\* stop that price has reached
Due(prices) ==
    {o \in DOMAIN orders :
        /\ orders[o].status = PENDING
        /\ prices[orders[o].symbol] # None
        /\ ConditionHolds(orders[o], prices[orders[o].symbol])}

\* C14: update_market_prices changes only the PENDING orders whose symbol
\* has a price in the snapshot and whose condition holds at that price:
\* every other order keeps all its fields, none is executed, no trade is
\* recorded for it, and with no such order cash, positions and trades are
\* as they were
C14_SweepLeavesOtherOrdersAlone ==
    \A prices \in TriggerSnapshots :
        LET R == update_market_prices(Store, prices, clock)
            log == R.store.log
        IN /\ DOMAIN R.store.orders = DOMAIN orders
           /\ \A o \in DOMAIN orders \ Due(prices) :
                 R.store.orders[o] = orders[o]
           /\ \A i \in DOMAIN log : log[i].order.id \in Due(prices)
           /\ \A t \in DOMAIN R.store.trades \ DOMAIN trades :
                 R.store.trades[t].order_id \in Due(prices)
           /\ \A p \in DOMAIN portfolios :
                 (\A o \in Due(prices) : orders[o].portfolio_id # p) =>
                     R.store.portfolios[p] = portfolios[p]
           /\ Due(prices) = {} => Ledger(R.store) = Ledger(Store)

\* two orders are waiting and a snapshot prices both: the limit of one is
\* reached and the stop of the other is not; another snapshot has no price
\* for their symbol
C14_Witness ==
    \E prices, others \in TriggerSnapshots, o1, o2 \in DOMAIN orders :
        /\ o1 \in Due(prices)
        /\ orders[o2].status = PENDING
        /\ orders[o2].stop_price # None
        /\ prices[orders[o2].symbol] # None
        /\ o2 \notin Due(prices)
        /\ others[orders[o1].symbol] = None
        /\ others # NoPrices

\* C15: the list update_market_prices returns holds, once each and as they
\* are after the call, exactly the orders whose status the call changed,
\* each of them from PENDING to FILLED or REJECTED
C15_SweepReturnsChangedOrders ==
    \A prices \in TriggerSnapshots :
        LET R == update_market_prices(Store, prices, clock)
            executed_orders == R.executed_orders
            Changed == {o \in DOMAIN orders :
                           R.store.orders[o].status # orders[o].status}
        IN /\ {executed_orders[i].id : i \in DOMAIN executed_orders} = Changed
           /\ Len(executed_orders) = Cardinality(Changed)
           /\ \A i \in DOMAIN executed_orders :
                 executed_orders[i] = R.store.orders[executed_orders[i].id]
           /\ \A o \in Changed :
                 /\ orders[o].status = PENDING
                 /\ R.store.orders[o].status \in {FILLED, REJECTED}

\* a sweep that rejects one waiting order and fills the other returns both
C15_Witness ==
    \E prices \in TriggerSnapshots :
        LET executed_orders ==
                update_market_prices(Store, prices, clock).executed_orders
        IN /\ Len(executed_orders) = 2
           /\ executed_orders[1].status = REJECTED
           /\ executed_orders[2].status = FILLED

\* the trades a ledger has and another had not
NewTrades(before, after) == DOMAIN after.trades \ DOMAIN before.trades

\* Scenario A in the units of the model, one price unit being 1000: a
\* portfolio with cash 100000.00 and a market buy of 0.5 at 50000
ScenarioA ==
    create_order(create_portfolio(NewStore, 1000000000, 1).store, 1,
                 Request("BTC/USD", BUY, MARKET, 5000, None, None), 50, 1)

\* Scenario B: Scenario A, then a market sell of 0.5 at 52000
ScenarioB ==
    create_order([ScenarioA.store EXCEPT !.log = <<>>], 1,
                 Request("BTC/USD", SELL, MARKET, 5000, None, None), 52, 1)

\* an execution of a buy that was not rejected: the order is FILLED, the
\* cash is less by quantity x price and the fee, the one position of the
\* symbol has the quantity more and quantity x price more of cost basis,
\* and one trade with the fee is recorded
BuyFilled(e) ==
    LET pid == e.order.portfolio_id
        notional == e.order.quantity * e.price * MoneyScale
        fee == e.order.quantity * e.price * fee_rate
        held == Held(e.before, pid, e.order.symbol)
    IN /\ e.status = FILLED
       /\ e.after.portfolios[pid].cash_balance =
             e.before.portfolios[pid].cash_balance - notional - fee
       /\ \E p \in DOMAIN e.after.positions :
             LET new == e.after.positions[p]
             IN /\ Held(e.after, pid, e.order.symbol) = {p}
                /\ IF held = {}
                   THEN /\ new.quantity = e.order.quantity
                        /\ new.total_cost.n = notional * new.total_cost.d
                   ELSE /\ held = {p}
                        /\ new.quantity =
                              e.before.positions[p].quantity + e.order.quantity
                        /\ new.total_cost.n * e.before.positions[p].total_cost.d
                           = (e.before.positions[p].total_cost.n
                              + notional * e.before.positions[p].total_cost.d)
                             * new.total_cost.d
       /\ \E t \in DOMAIN e.after.trades :
             /\ NewTrades(e.before, e.after) = {t}
             /\ e.after.trades[t].order_id = e.order.id
             /\ e.after.trades[t].side = BUY
             /\ e.after.trades[t].quantity = e.order.quantity
             /\ e.after.trades[t].price = e.price
             /\ e.after.trades[t].fee = fee

\* C16: a BUY that is not rejected debits the cash by quantity x price x
\* (1 + fee_rate), adds the quantity to the position of the symbol and
\* quantity x price, without the fee, to its cost basis, records one trade
\* carrying the fee and marks the order FILLED; in Scenario A the fee is
\* 25.00, the cash 74975.00, the position 0.5 with cost basis 25000.00 and
\* average entry price 50000
C16_BuyFill ==
    LET P(e) == (e.order.side = BUY /\ e.status # REJECTED) => BuyFilled(e)
        S == ScenarioA.store
    IN /\ EveryExecution(P)
       /\ ScenarioA.order.status = FILLED
       /\ S.trades[1].fee = 250000
       /\ S.portfolios[1].cash_balance = 749750000
       /\ S.positions[1].quantity = 5000
       /\ S.positions[1].total_cost = Rat(250000000, 1)
       /\ average_entry_price(S.positions[1]) = Rat(50 * MoneyScale, 1)

\* two buys of a symbol at different prices have been filled and nothing
\* sold: the position holds both quantities, its cost basis is the sum of
\* quantity x price, and the cash is less by that sum and the fees
C16_Witness ==
    \E t1, t2 \in DOMAIN trades, p \in DOMAIN positions :
        LET n1 == trades[t1].quantity * trades[t1].price
            n2 == trades[t2].quantity * trades[t2].price
            portfolio == portfolios[positions[p].portfolio_id]
        IN /\ DOMAIN trades = {t1, t2}
           /\ trades[t1].side = BUY /\ trades[t2].side = BUY
           /\ trades[t1].price # trades[t2].price
           /\ trades[t1].symbol = positions[p].symbol
           /\ trades[t2].symbol = positions[p].symbol
           /\ positions[p].quantity = trades[t1].quantity + trades[t2].quantity
           /\ positions[p].total_cost = Rat((n1 + n2) * MoneyScale, 1)
           /\ portfolio.cash_balance =
                 portfolio.initial_balance - (n1 + n2) * (MoneyScale + fee_rate)

\* an execution of a sell that was not rejected: the order is FILLED, the
\* cash is more by quantity x price less the fee, the position has the
\* quantity less and the same cost per unit, or is gone when 0.0001 or less
\* is left, and one trade with the fee is recorded
SellFilled(e) ==
    LET pid == e.order.portfolio_id
        notional == e.order.quantity * e.price * MoneyScale
        fee == e.order.quantity * e.price * fee_rate
    IN /\ e.status = FILLED
       /\ e.after.portfolios[pid].cash_balance =
             e.before.portfolios[pid].cash_balance + notional - fee
       /\ \E p \in DOMAIN e.before.positions :
             LET old == e.before.positions[p]
                 left == old.quantity - e.order.quantity
             IN /\ Held(e.before, pid, e.order.symbol) = {p}
                /\ left >= 0
                /\ IF left <= Epsilon
                   THEN /\ Held(e.after, pid, e.order.symbol) = {}
                        /\ p \notin Range(e.after.portfolio_positions[pid])
                   ELSE /\ Held(e.after, pid, e.order.symbol) = {p}
                        /\ e.after.positions[p].quantity = left
                        /\ average_entry_price(e.after.positions[p])
                           = average_entry_price(old)
                        /\ e.after.positions[p].total_cost.n
                             * old.total_cost.d * old.quantity
                           = old.total_cost.n * left
                             * e.after.positions[p].total_cost.d
       /\ \E t \in DOMAIN e.after.trades :
             /\ NewTrades(e.before, e.after) = {t}
             /\ e.after.trades[t].order_id = e.order.id
             /\ e.after.trades[t].side = SELL
             /\ e.after.trades[t].quantity = e.order.quantity
             /\ e.after.trades[t].price = e.price
             /\ e.after.trades[t].fee = fee

\* C17: a SELL that is not rejected credits the cash by quantity x price
\* less the fee, takes the quantity off the position and the same share off
\* its cost basis, so that the average entry price stays, and deletes the
\* position when 0.0001 or less is left; in Scenario B the fee is 26.00,
\* the cash 100949.00 and no position is left
C17_SellFill ==
    LET P(e) == (e.order.side = SELL /\ e.status # REJECTED) => SellFilled(e)
        S == ScenarioB.store
    IN /\ EveryExecution(P)
       /\ ScenarioB.order.status = FILLED
       /\ S.trades[2].fee = 260000
       /\ S.portfolios[1].cash_balance = 1009490000
       /\ DOMAIN S.positions = {}
       /\ S.portfolio_positions[1] = <<>>

\* a buy and then a sell of part of it have been filled: the position holds
\* the rest at the average entry price of the buy
C17_Witness ==
    \E b, t \in DOMAIN trades, p \in DOMAIN positions :
        /\ DOMAIN trades = {b, t}
        /\ b < t
        /\ trades[b].side = BUY /\ trades[t].side = SELL
        /\ trades[b].symbol = positions[p].symbol
        /\ trades[t].symbol = positions[p].symbol
        /\ positions[p].quantity = trades[b].quantity - trades[t].quantity
        /\ positions[p].quantity > Epsilon
        /\ average_entry_price(positions[p])
           = Rat(trades[b].price * MoneyScale, 1)

\* C18: the total of every trade that list_trades returns is quantity x
\* price + fee for a buy and quantity x price - fee for a sell
C18_TradeTotalBySide ==
    \A p \in DOMAIN portfolios :
        LET listed == list_trades(Store, p, DefaultLimit)
        IN \A i \in DOMAIN listed :
              listed[i].total =
                  IF listed[i].side = BUY
                  THEN listed[i].quantity * listed[i].price * MoneyScale
                       + listed[i].fee
                  ELSE listed[i].quantity * listed[i].price * MoneyScale
                       - listed[i].fee

\* the numbers N of buys and of sells of a round trip
RoundTrips == {1, 2, 3}

\* n create_order calls with the same market request at the same price, one
\* after the other: the store after them, and whether all were filled
RECURSIVE Repeated(_, _, _, _, _)
Repeated(S, portfolio_id, request, current_price, n) ==
    IF n = 0 THEN [store |-> S, filled |-> TRUE]
    ELSE LET R == create_order(S, portfolio_id, request, current_price, clock)
             rest == Repeated(R.store, portfolio_id, request, current_price,
                              n - 1)
         IN [store |-> rest.store,
             filled |-> R.order.status = FILLED /\ rest.filled]

C20_EveryOrderHasItsPrice ==
    \A o \in DOMAIN orders :
        /\ orders[o].order_type = LIMIT => orders[o].price # None
        /\ orders[o].order_type \in {STOP_LOSS, TAKE_PROFIT} =>
              orders[o].stop_price # None
        /\ orders[o].status = PENDING =>
              \E c \in TriggerPrices : ConditionHolds(orders[o], c)

\* what a store holds for the account portfolio_id: the portfolio, its
\* orders, positions and trades, and its entries in the three indexes
Owned(S, portfolio_id) ==
    [portfolio |-> Get(S.portfolios, portfolio_id, None),
     orders |-> {S.orders[o] : o \in {x \in DOMAIN S.orders :
                    S.orders[x].portfolio_id = portfolio_id}},
     positions |-> {S.positions[o] : o \in {x \in DOMAIN S.positions :
                    S.positions[x].portfolio_id = portfolio_id}},
     trades |-> {S.trades[o] : o \in {x \in DOMAIN S.trades :
                    S.trades[x].portfolio_id = portfolio_id}},
     portfolio_orders |-> Get(S.portfolio_orders, portfolio_id, None),
     portfolio_positions |-> Get(S.portfolio_positions, portfolio_id, None),
     portfolio_trades |-> Get(S.portfolio_trades, portfolio_id, None)]

\* what a store holds for an account that does not exist
Nothing ==
    [portfolio |-> None, orders |-> {}, positions |-> {}, trades |-> {},
     portfolio_orders |-> None, portfolio_positions |-> None,
     portfolio_trades |-> None]

\* C21: delete_portfolio with the id of an existing account returns True and
\* removes the account with every order, position and trade it owns, so that
\* no later update_market_prices executes or returns one of its orders, and
\* it leaves what every other account holds unchanged; with an id that no
\* portfolio has it returns False and changes nothing
C21_DeleteRemovesOneAccountOnly ==
    \A p \in AccountIds \cup {UnknownId} :
        LET r == delete_portfolio(Store, p)
        IN IF p \notin DOMAIN portfolios
           THEN r.result = "False" /\ r.store = Store
           ELSE /\ r.result = "True"
                /\ Owned(r.store, p) = Nothing
                /\ \A q \in (AccountIds \cup {UnknownId}) \ {p} :
                      Owned(r.store, q) = Owned(Store, q)
                /\ r.store.ids = ids
                /\ \A prices \in AccountSnapshots :
                      LET u == update_market_prices(r.store, prices, clock)
                      IN /\ \A i \in DOMAIN u.executed_orders :
                               u.executed_orders[i].portfolio_id # p
                         /\ \A i \in DOMAIN u.store.log :
                               u.store.log[i].order.portfolio_id # p
                         /\ Owned(u.store, p) = Nothing

\* account 1 has been deleted with the order and the trade it had, and
\* account 2 is left with its order, its trade and its position
C21_Witness ==
    /\ DOMAIN portfolios = {2}
    /\ ids.order = 3
    /\ ids.trade = 3
    /\ Cardinality(DOMAIN orders) = 1
    /\ Cardinality(DOMAIN trades) = 1
    /\ Cardinality(DOMAIN positions) = 1
    /\ \A o \in DOMAIN orders : orders[o].portfolio_id = 2


\* the sum of f over the keys D
RECURSIVE SumOf(_, _)
SumOf(f, D) ==
    IF D = {} THEN 0
    ELSE LET k == CHOOSE x \in D : TRUE
         IN f[k] + SumOf(f, D \ {k})

\* what the trades stored for the account portfolio_id took from its cash
\* (a buy: quantity * price + fee) less what they gave (a sell: quantity *
\* price - fee)
NetPaid(portfolio_id) ==
    LET mine == {t \in DOMAIN trades : trades[t].portfolio_id = portfolio_id}
        paid == [t \in mine |->
                    IF trades[t].side = BUY
                    THEN trades[t].quantity * trades[t].price * MoneyScale
                         + trades[t].fee
                    ELSE -(trades[t].quantity * trades[t].price * MoneyScale
                           - trades[t].fee)]
    IN SumOf(paid, mine)

\* C28: in every reachable state the cash balance of an account is its
\* initial balance, less quantity * price + fee for each of its BUY trades,
\* plus quantity * price - fee for each of its SELL trades; orders that are
\* pending, cancelled or rejected have no trade and contribute nothing
C28_CashIsInitialLessTrades ==
    \A p \in DOMAIN portfolios :
        /\ portfolios[p].cash_balance
              = portfolios[p].initial_balance - NetPaid(p)
        /\ \A o \in DOMAIN orders :
              orders[o].status \in {PENDING, CANCELLED, REJECTED}
                 => TradesOf(o) = {}

\* an account has bought and sold, with a fee each time, and has an order
\* that was not filled
C28_Witness ==
    \E p \in DOMAIN portfolios :
        /\ \E t \in DOMAIN trades :
              trades[t].portfolio_id = p /\ trades[t].side = BUY
                 /\ trades[t].fee > 0
        /\ \E t \in DOMAIN trades :
              trades[t].portfolio_id = p /\ trades[t].side = SELL
                 /\ trades[t].fee > 0
        /\ \E o \in DOMAIN orders :
              orders[o].portfolio_id = p
                 /\ orders[o].status \in {PENDING, CANCELLED, REJECTED}
        /\ portfolios[p].cash_balance # portfolios[p].initial_balance


\* the _execute_order calls of one update_market_prices call are made for
\* the triggered pending orders in the order of their creation, each on the
\* ledger the call before it left, and each is decided on that ledger
InCreationOrder(log, prices) ==
    /\ {log[i].order.id : i \in DOMAIN log}
          = {o \in DOMAIN orders : Trigger(orders[o], prices) # None}
    /\ \A i, j \in DOMAIN log : i < j => log[i].order.id < log[j].order.id
    /\ \A i \in DOMAIN log :
          /\ log[i].order = orders[log[i].order.id]
          /\ log[i].before = IF i = 1 THEN Ledger(Store) ELSE log[i - 1].after
          /\ log[i].status =
                IF OverBalance(log[i]) \/ OverPosition(log[i])
                THEN REJECTED ELSE FILLED

\* a sell, a buy that would supply the sell's position, and a buy that the
\* cash before the call covers: rejected, filled, rejected
SellBuyBuy(log) ==
    /\ Len(log) = 3
    /\ log[1].order.side = SELL /\ log[1].status = REJECTED
    /\ log[2].order.side = BUY /\ log[2].status = FILLED
    /\ log[2].order.symbol = log[1].order.symbol
    /\ log[2].order.quantity >= log[1].order.quantity
    /\ log[3].order.side = BUY /\ log[3].status = REJECTED
    /\ ~OverBalance([log[3] EXCEPT !.before = log[1].before])

\* C29: within one update_market_prices call the triggered pending orders
\* are executed one at a time in the order of their creation, each against
\* the cash and the positions the earlier ones left: of two triggered buys
\* that the cash covers one by one and not together the earlier is FILLED
\* and the later REJECTED, and a triggered sell created before the
\* triggered buy that would supply its position is REJECTED
C29_SweepExecutesInCreationOrder ==
    \A prices \in SweepSnapshots :
        LET log == update_market_prices(Store, prices, clock).store.log
        IN /\ InCreationOrder(log, prices)
           /\ \A i, j \in DOMAIN log :
                 /\ i < j
                 /\ log[i].order.side = BUY /\ log[j].order.side = BUY
                 /\ log[i].order.portfolio_id = log[j].order.portfolio_id
                 /\ ~OverBalance([log[i] EXCEPT !.before = Ledger(Store)])
                 /\ ~OverBalance([log[j] EXCEPT !.before = Ledger(Store)])
                 /\ log[i].order.quantity * log[i].price * (MoneyScale + fee_rate)
                    + log[j].order.quantity * log[j].price * (MoneyScale + fee_rate)
                    > portfolios[log[i].order.portfolio_id].cash_balance
                 /\ log[i].status = FILLED
                 => log[j].status = REJECTED
           /\ \A i, j \in DOMAIN log :
                 /\ i < j
                 /\ log[i].order.side = SELL /\ log[j].order.side = BUY
                 /\ log[i].order.symbol = log[j].order.symbol
                 /\ Held(Ledger(Store), log[i].order.portfolio_id,
                         log[i].order.symbol) = {}
                 /\ \A k \in 1..(i - 1) : log[k].order.side = SELL
                 => log[i].status = REJECTED

\* a snapshot triggers a sell, then a buy, then a second buy
C29_Witness ==
    \E prices \in SweepSnapshots :
        SellBuyBuy(update_market_prices(Store, prices, clock).store.log)


\* the trades stored for an account
StoredTrades(portfolio_id) ==
    {t \in DOMAIN trades : trades[t].portfolio_id = portfolio_id}

\* the BUY trades stored for the account of the trade t, of its symbol and
\* with an earlier execution time
EarlierBuys(t) ==
    {b \in StoredTrades(trades[t].portfolio_id) :
        /\ trades[b].side = BUY
        /\ trades[b].symbol = trades[t].symbol
        /\ trades[b].executed_at < trades[t].executed_at}

\* whether the price of the trade t exceeds the average price of the
\* trades in buys (which is not empty)
AboveAverage(t, buys) ==
    trades[t].price * Cardinality(buys)
       > SumOf([b \in buys |-> trades[b].price], buys)

\* the SELL trades of an account whose price exceeds the average price of
\* their earlier buys, and those with earlier buys whose price does not
Wins(portfolio_id) ==
    {t \in StoredTrades(portfolio_id) :
        /\ trades[t].side = SELL
        /\ LET buys == EarlierBuys(t)
           IN buys # {} /\ AboveAverage(t, buys)}

Losses(portfolio_id) ==
    {t \in StoredTrades(portfolio_id) :
        /\ trades[t].side = SELL
        /\ LET buys == EarlierBuys(t)
           IN buys # {} /\ ~AboveAverage(t, buys)}

\* C26: in the statistics of an account a SELL trade is a win when its
\* price exceeds the average price of all BUY trades of the same symbol
\* with an earlier execution time and a loss otherwise, a SELL trade with
\* no such BUY trade is neither, and win_rate is wins / (wins + losses) x
\* 100, or 0 when no trade is classified
C26_WinsAndLossesByEarlierBuys ==
    \A p \in DOMAIN portfolios :
        LET stats == _calculate_portfolio_stats(Store, p, NoPrices)
            wins == Cardinality(Wins(p))
            losses == Cardinality(Losses(p))
        IN /\ stats.winning_trades = wins
           /\ stats.losing_trades = losses
           /\ stats.win_rate = IF wins + losses > 0
                               THEN Rat(wins * 100, wins + losses)
                               ELSE Rat(0, 1)

\* C30: for every account and every number of executed orders, total_trades
\* in its statistics is the number of Trade records stored for it, and the
\* wins and losses are counted over all of those trades: every stored SELL
\* trade with an earlier stored BUY trade is one or the other
C30_StatsCountEveryTrade ==
    \A p \in DOMAIN portfolios :
        LET stats == _calculate_portfolio_stats(Store, p, NoPrices)
        IN /\ stats.total_trades = Cardinality(StoredTrades(p))
           /\ stats.winning_trades + stats.losing_trades
                 = Cardinality({t \in StoredTrades(p) :
                       trades[t].side = SELL /\ EarlierBuys(t) # {}})

\* with no more trades than list_trades lists by default, the statistics
\* count every trade and classify every sell by all its earlier buys
StatsOfListedTrades ==
    \A p \in DOMAIN portfolios :
        Cardinality(StoredTrades(p)) <= DefaultLimit
           => LET stats == _calculate_portfolio_stats(Store, p, NoPrices)
              IN /\ stats.total_trades = Cardinality(StoredTrades(p))
                 /\ stats.winning_trades = Cardinality(Wins(p))
                 /\ stats.losing_trades = Cardinality(Losses(p))


\* the types of the backtest's amounts: rationals in lowest terms
BacktestTypeOK ==
    LET Q(x) == x.d > 0 /\ GCD(Abs(x.n), x.d) = 1
        P == backtester.portfolio
    IN /\ Q(P.current_capital) /\ Q(P.peak_capital)
       /\ \A i \in DOMAIN P.equity_curve : Q(P.equity_curve[i])
       /\ \A i \in DOMAIN P.drawdown_curve : Q(P.drawdown_curve[i])
       /\ \A i \in DOMAIN P.open_positions : Q(P.open_positions[i].quantity)


\* the intents of the outcome are applied on the bar that is processed
\* next, with the close given: the loop takes up the signals appended on
\* this bar, each once and in the order they were emitted, at this bar's
\* timestamp and close, and no signal of an earlier bar
AppliedInBar(close, outcome) ==
    LET r == bar_step(backtester.portfolio, run, close, outcome)
    IN r.applied = [i \in DOMAIN outcome.intents |->
                       [signal |-> Len(run.signals) + i,
                        timestamp |-> run.index + 1,
                        price |-> close]]

\* C22: in run_backtest every intent (buy, sell, close_all) that the
\* strategy emits while a bar is processed is applied during that same bar
\* at that bar's closing price, exactly once and before the next bar is
\* processed; none is left unapplied when the bar ends and none is applied
\* during a later bar
C22_IntentsAppliedInTheirBar ==
    run.pc = "loop" /\ run.index < MaxBars
       => \A close \in Closes,
             outcome \in Outcomes(backtester.portfolio.commission) :
             AppliedInBar(close, outcome)

\* the same of the bars on which the strategy returns
IntentsAppliedUnlessRaised ==
    run.pc = "loop" /\ run.index < MaxBars
       => \A close \in Closes,
             outcome \in Outcomes(backtester.portfolio.commission) :
             ~outcome.raises => AppliedInBar(close, outcome)

\* C23: run_backtest takes exactly one equity sample per bar: after k bars
\* the equity curve and the drawdown curve each hold 1 + k entries (the
\* initial entry and one per bar), whatever the strategy did on those bars
C23_OneSamplePerBar ==
    /\ Len(backtester.portfolio.equity_curve) = 1 + run.index
    /\ Len(backtester.portfolio.drawdown_curve) = 1 + run.index

\* one sample for each bar on which the strategy returned: the bars are
\* never fewer than the samples
SamplesWithinBars ==
    /\ Len(backtester.portfolio.equity_curve) <= 1 + run.index
    /\ Len(backtester.portfolio.drawdown_curve)
          = Len(backtester.portfolio.equity_curve)

\* cash plus the mark-to-market value of the open positions
MarkToMarket(P, close) ==
    QAdd(P.current_capital,
         QSum([i \in DOMAIN P.open_positions |->
                  QMul(P.open_positions[i].quantity, close)]))

\* C24: each equity sample equals the cash plus the mark-to-market value of
\* the open positions (the sum of quantity x the bar's close); with a
\* commission of 0, a bar on which a position is entered at the close and
\* nothing else is done leaves the sample equal to the equity before
C24_EquityIsCashPlusPositions ==
    run.pc = "loop" /\ run.index < MaxBars
       => \A close \in Closes,
             outcome \in Outcomes(backtester.portfolio.commission) :
             ~outcome.raises
                => LET P == bar_step(backtester.portfolio, run, close,
                                     outcome).portfolio
                       sample == P.equity_curve[Len(P.equity_curve)]
                   IN /\ sample = MarkToMarket(P, close)
                      /\ /\ P.commission = QInt(0)
                         /\ Len(outcome.intents) = 1
                         /\ outcome.intents[1].action = "buy"
                         => sample = MarkToMarket(backtester.portfolio, close)


\* after every update_equity call the peak is the maximum of the equity
\* samples so far, and each entry of the drawdown curve is (peak - equity)
\* / peak x 100 for the peak when it was appended, and is not negative
PeakAndDrawdown(P) ==
    /\ P.peak_capital = QMax(P.equity_curve)
    /\ Len(P.drawdown_curve) = Len(P.equity_curve)
    /\ \A i \in DOMAIN P.drawdown_curve :
          LET peak == QMax(SubSeq(P.equity_curve, 1, i))
          IN /\ P.drawdown_curve[i]
                   = QMul(QDiv(QSub(peak, P.equity_curve[i]), peak), QInt(100))
             /\ ~QLess(P.drawdown_curve[i], QInt(0))

\* C25: after every update_equity call peak_capital is the maximum of all
\* equity samples so far, the drawdown entry appended is (peak - equity) /
\* peak x 100 and is >= 0, and the max_drawdown that get_statistics reports
\* is the maximum entry of the drawdown curve
C25_PeakDrawdownAndMaxDrawdown ==
    LET P == backtester.portfolio
    IN /\ PeakAndDrawdown(P)
       /\ get_statistics(P).max_drawdown = QMax(P.drawdown_curve)

\* the peak and the drawdown curve are so in every state
PeakAndDrawdownHold == PeakAndDrawdown(backtester.portfolio)

\* the statistics run_backtest computes after the last bar have the
\* maximum of the drawdown curve
FinalMaxDrawdown ==
    run.pc = "done"
       => run.statistics.max_drawdown
             = QMax(backtester.portfolio.drawdown_curve)

\* C27: the win_rate of get_statistics is winners / (winners + losers) x
\* 100, where a winner is a closed trade with pnl > 0 and a loser one with
\* pnl < 0, also when some trades broke even, and 0 when no trade is a
\* winner or a loser
C27_WinRateOverWinnersAndLosers ==
    run.pc = "done"
       => LET closed == backtester.portfolio.trades
              winners == Len(SelectSeq(closed,
                                       LAMBDA t : QLess(QInt(0), t.pnl)))
              losers == Len(SelectSeq(closed,
                                      LAMBDA t : QLess(t.pnl, QInt(0))))
          IN run.statistics.win_rate
                = IF winners + losers > 0
                  THEN Rat(winners * 100, winners + losers)
                  ELSE QInt(0)

\* without a trade that broke even the win_rate is that ratio
WinRateWithoutBreakEven ==
    run.pc = "done"
       => LET closed == backtester.portfolio.trades
              winners == Len(SelectSeq(closed,
                                       LAMBDA t : QLess(QInt(0), t.pnl)))
          IN Len(SelectSeq(closed, LAMBDA t : t.pnl = QInt(0))) = 0
                => run.statistics.win_rate
                      = IF closed # <<>>
                        THEN Rat(winners * 100, Len(closed))
                        ELSE QInt(0)


====
